---- MODULE Spec2Model ----
(***************************************************************************)
(* Cache and analysis lifecycle of stonky.                                 *)
(*                                                                         *)
(*   SpecAnalyze : GET /analyze/{symbol} (docs/implementation-plan.md,     *)
(*                 analyze_stock) on top of AnalysisEngine.analyze, the    *)
(*                 Redis key analysis:{symbol} and the snapshot table.     *)
(*   SpecJobs    : the Celery variant: analyze_company_task and            *)
(*                 get_job_status.                                         *)
(*   SpecQuote   : lib/cache/redis.ts cacheJson as used by                 *)
(*                 lib/sources/nse.ts getQuote.                            *)
(*   SpecFetch   : NSEService.get_shareholding (docs/tech-plan-brief.md).  *)
(*   SpecVerdict, SpecScoring, SpecQuality, SpecGrowth, SpecRisk :         *)
(*                 the engine functions, each applied to one input drawn   *)
(*                 in the initial state.                                   *)
(*                                                                         *)
(* Time is counted in seconds.  A handler gives up control at every await, *)
(* so one action is one stretch of code between two awaits.                *)
(***************************************************************************)
EXTENDS Integers, FiniteSets, Sequences, TLC

\* ------------------------------------------------------------------ bounds
MaxReqs == 2
MaxTicks == 3
MaxCallers == 2
MaxQuoteTicks == 2
MaxJobs == 2

\* --------------------------------------------------------------- constants
AnalysisTtlSec == 86400
QuoteTtlSec == 300
JobTimeoutSec == 20
TickSeconds == 12 * 3600
QuoteTickSeconds == QuoteTtlSec \div 2
NumFetches == 3

Symbols == {"RELIANCE"}
Reqs == 1..MaxReqs
Callers == 1..MaxCallers
JobIds == 1..MaxJobs

VARIABLES
  now,        \* wall clock, seconds
  cache,      \* Redis key analysis:{symbol}: value and the time of the SETEX
  snapshots,  \* snapshot table: per symbol the rows created so far
  req,        \* one record per analyze_stock request
  redisUrl,   \* process.env.REDIS_URL is set
  client,     \* redis.ts: the module-level client has been created
  qcache,     \* Redis key nse:quote:{symbol}
  qcall,      \* one record per getQuote call
  jobs,       \* Celery tasks, by job id
  polls,      \* answers given by get_job_status
  nse,        \* one record per NSEService.get_shareholding call
  calc,       \* one evaluation of an engine function: inputs and result
  route,      \* one request to a Next.js API route
  sb,         \* the SearchBar component
  bm,         \* localStorage bookmarks and the BookmarkButton components
  card        \* a data card component (PriceCard, NewsList, FundamentalsCard)

vars == <<now, cache, snapshots, req, redisUrl, client, qcache, qcall, jobs, polls,
          nse, calc, route, sb, bm, card>>
analyzeVars == <<cache, snapshots, req>>
quoteVars == <<redisUrl, client, qcache, qcall>>
jobVars == <<jobs, polls>>
engineVars == <<nse, calc>>
uiVars == <<route, sb, bm, card>>

\* ------------------------------------------------------------------ values
NoResult == [symbol |-> "", timestamp |-> -1, id |-> 0]
NoEntry == [present |-> FALSE, data |-> NoResult, setAt |-> 0]
NoRow == [present |-> FALSE, data |-> NoResult, createdAt |-> 0]
NoResponse == [kind |-> "none", data |-> NoResult, error |-> ""]

\* what asyncio.gather handed back
NoFetched == [fundamentals |-> "", shareholding |-> "", price |-> ""]

\* fetched and company are what engine.analyze was given; they stay on the
\* record of the request
IdleReq ==
  [pc |-> "idle", symbol |-> "", force |-> FALSE, elapsed |-> 0,
   response |-> NoResponse, fetches |-> 0, fetched |-> NoFetched, company |-> "",
   servedFrom |-> "none", peers |-> {}]

\* ------------------------------------------------- Redis and the snapshots
\* SETEX key 86400 value: the key is readable until its time to live is over.
CacheLive(e, t) == e.present /\ t - e.setAt < AnalysisTtlSec

\* cache.get(f"analysis:{symbol}")
CacheGet(s) == IF CacheLive(cache[s], now) THEN cache[s] ELSE NoEntry

\* `max_age_hours=24`, the argument analyze_stock passes to repo.get_latest
MaxAgeHours == 24

\* SnapshotRepository.get_latest(symbol, max_age_hours) is called but not
\* defined in the repository.  By the specification every stored result
\* carries its own timestamp for the freshness evaluation, and the read path
\* of docs/architecture.md takes a row that is "FRESH (< 24hrs)": the newest
\* row of the symbol, if the age of its result is below max_age_hours.  Rows
\* are only ever added, so the newest row is all the table has to remember.
RowFresh(row, t, max_age_hours) ==
  row.present /\ t - row.data.timestamp < max_age_hours * 3600

repo_get_latest(s, max_age_hours) ==
  IF RowFresh(snapshots[s], now, max_age_hours) THEN snapshots[s] ELSE NoRow

\* `if not force:` in front of both lookups
BypassFreshness(force) == force

\* requests that have an engine.analyze cycle in progress
Computing(r) == req[r].pc \in {"gather", "get_company"}
InFlight(s) == {r \in Reqs : Computing(r) /\ req[r].symbol = s}

\* wall-clock time the call in progress has used: the count ends when the
\* call returns, and nothing looks at it beyond the budget
Elapse(q, d) ==
  IF q.pc \in {"cache_get", "db_check", "gather", "get_company"}
       /\ q.elapsed <= JobTimeoutSec
    THEN [q EXCEPT !.elapsed = @ + d]
    ELSE q

\* ------------------------------------------------------------ analyze_stock
\* entering engine.analyze: asyncio.gather issues the three fetches
StartGather(q, s) ==
  [q EXCEPT !.pc = "gather", !.fetches = NumFetches, !.peers = InFlight(s)]

\* the stored result is returned as it is
Served(q, from, data) ==
  [q EXCEPT !.pc = "done", !.elapsed = 0, !.servedFrom = from,
            !.response = [kind |-> "result", data |-> data, error |-> ""]]

\* the request arrives: without force step 1 awaits cache.get; with force
\* both lookups are skipped and engine.analyze is entered
analyze_stock(r, s, force) ==
  /\ req[r].pc = "idle"
  /\ r > 1 => req[r - 1].pc # "idle"
  /\ LET base == [req[r] EXCEPT !.symbol = s, !.force = force]
     IN req' = [req EXCEPT ![r] =
          IF ~BypassFreshness(force)
            THEN [base EXCEPT !.pc = "cache_get"]
          ELSE StartGather(base, s)]
  /\ UNCHANGED <<now, cache, snapshots, quoteVars, jobVars, engineVars, uiVars>>

\* step 1: cache.get answers; on a miss step 2 awaits repo.get_latest
cache_get(r) ==
  /\ req[r].pc = "cache_get"
  /\ LET hit == CacheGet(req[r].symbol)
     IN req' = [req EXCEPT ![r] =
          IF hit.present
            THEN Served(req[r], "cache", hit.data)
          ELSE [req[r] EXCEPT !.pc = "db_check"]]
  /\ UNCHANGED <<now, cache, snapshots, quoteVars, jobVars, engineVars, uiVars>>

\* step 2: repo.get_latest answers with the snapshot of the last 24 hours
check_database(r) ==
  /\ req[r].pc = "db_check"
  /\ LET sn == repo_get_latest(req[r].symbol, MaxAgeHours)
     IN req' = [req EXCEPT ![r] =
          IF sn.present
            THEN Served(req[r], "db", sn.data)
          ELSE StartGather(req[r], req[r].symbol)]
  /\ UNCHANGED <<now, cache, snapshots, quoteVars, jobVars, engineVars, uiVars>>

\* what each collaborator of asyncio.gather hands back
Outcomes == {"ok", "fail"}

\* the three series of one gather: all there, or one of them missing
Gathered ==
  {f \in [fundamentals : Outcomes, shareholding : Outcomes, price : Outcomes] :
     Cardinality({k \in DOMAIN f : f[k] = "fail"}) <= 1}

\* company_repo.get_by_symbol(symbol): the row of the company, or None
Companies == {"row", "None"}

\* step 3 of AnalysisEngine.analyze runs the engines in this order: growth
\* and quality read the fundamentals, and raise when they did not arrive;
\* then risk.analyze(company, fundamentals) reads company.sector, which raises
\* for None, and for a company row calls strategy.calculate_risk, a method no
\* strategy class has (RiskEngine_analyze below), which raises too.  The
\* value names the input read by the engine that raises.  Valuation and
\* ownership, the readers of price and shareholding, are never reached.
EnginesRaise(fetched, company) ==
  IF fetched.fundamentals = "fail" THEN "fundamentals"
  ELSE "company"

\* AnalysisEngine.analyze, step 1: the gather returns with the three series;
\* step 2, the company lookup, is issued
asyncio_gather(r, fetched) ==
  /\ req[r].pc = "gather"
  /\ req' = [req EXCEPT ![r].pc = "get_company", ![r].fetched = fetched]
  /\ UNCHANGED <<now, cache, snapshots, quoteVars, jobVars, engineVars, uiVars>>

\* AnalysisEngine.analyze from step 2 on: the company lookup returns and the
\* engines run, up to the one that raises.  The exception leaves
\* engine.analyze and analyze_stock: the result is never built, and step 4
\* (repo.create) and step 5 (cache.setex) of analyze_stock are never reached,
\* so no request writes the table or the key
engine_analyze(r, company) ==
  /\ req[r].pc = "get_company"
  /\ req' = [req EXCEPT
       ![r].pc = "failed", ![r].elapsed = 0, ![r].company = company,
       ![r].response = [kind |-> "error", data |-> NoResult,
                        error |-> EnginesRaise(req[r].fetched, company)]]
  /\ UNCHANGED <<now, cache, snapshots, quoteVars, jobVars, engineVars, uiVars>>

\* time passes while the handlers wait
Tick ==
  /\ now < MaxTicks * TickSeconds
  /\ now' = now + TickSeconds
  /\ req' = [r \in Reqs |-> Elapse(req[r], TickSeconds)]
  /\ UNCHANGED <<cache, snapshots, quoteVars, jobVars, engineVars, uiVars>>

\* ------------------------------------------------- cacheJson and getQuote
NoQuote == [status |-> "", asOf |-> -1]
NoString == <<>>
NoKey == [present |-> FALSE, str |-> NoString, setAt |-> 0]

\* seen is the fetch time of the newest quote a finished call of the symbol
\* had returned when this call arrived, -1 if there was none
IdleCall ==
  [pc |-> "idle", symbol |-> "", redis |-> FALSE, value |-> NoQuote,
   ret |-> NoQuote, fromCache |-> FALSE, seen |-> -1]

\* JSON.stringify and JSON.parse of a quote object
JsonStringify(v) == <<"{", v.status, v.asOf, "}">>
JsonParse(str) == [status |-> str[2], asOf |-> str[3]]

\* getRedis(): the client if there is one, else a new one if REDIS_URL is set,
\* else null
getRedis == client \/ redisUrl

\* redis.get(key): the string, or null once the EX time is over
RedisGet(s) ==
  IF qcache[s].present /\ now - qcache[s].setAt < QuoteTtlSec THEN qcache[s].str
  ELSE NoString

\* `if (cached)`: null and the empty string are falsy
Truthy_never(str) == FALSE

Truthy(str) == str # NoString

Completed(s) ==
  {qcall[c].ret.asOf : c \in {d \in Callers : /\ qcall[d].pc = "done"
                                              /\ qcall[d].symbol = s
                                              /\ qcall[d].ret.status = "ok"}}
LastCompleted(s) ==
  IF Completed(s) = {} THEN -1
  ELSE CHOOSE a \in Completed(s) : \A b \in Completed(s) : b <= a

\* getQuote(symbol) enters cacheJson(key, fetcher, 300): const redis = getRedis()
getQuote(c, s) ==
  /\ qcall[c].pc = "idle"
  /\ c > 1 => qcall[c - 1].pc # "idle"
  /\ client' = getRedis
  /\ qcall' = [qcall EXCEPT ![c] =
       [@ EXCEPT !.symbol = s, !.redis = getRedis, !.seen = LastCompleted(s),
                 !.pc = IF getRedis THEN "get" ELSE "fetch"]]
  /\ UNCHANGED <<now, redisUrl, qcache, analyzeVars, jobVars, engineVars, uiVars>>

\* const cached = await redis.get(key); if (cached) return JSON.parse(cached)
redis_get(c) ==
  /\ qcall[c].pc = "get"
  /\ LET cached == RedisGet(qcall[c].symbol)
     IN qcall' = [qcall EXCEPT ![c] =
          IF Truthy(cached)
            THEN [@ EXCEPT !.pc = "done", !.ret = JsonParse(cached), !.fromCache = TRUE]
            ELSE [@ EXCEPT !.pc = "fetch"]]
  /\ UNCHANGED <<now, redisUrl, client, qcache, analyzeVars, jobVars, engineVars, uiVars>>

\* the fetcher of getQuote: fetchJson throws when the answer is not ok, and the
\* catch turns that into { status: 'unavailable' }
Fetcher(ok) ==
  IF ok THEN [status |-> "ok", asOf |-> now]
  ELSE [status |-> "unavailable", asOf |-> now]

\* const value = await fetcher(); without Redis the value is returned at once
fetchJson(c, ok) ==
  /\ qcall[c].pc = "fetch"
  /\ qcall' = [qcall EXCEPT ![c] =
       IF qcall[c].redis
         THEN [@ EXCEPT !.pc = "set", !.value = Fetcher(ok)]
         ELSE [@ EXCEPT !.pc = "done", !.value = Fetcher(ok), !.ret = Fetcher(ok)]]
  /\ UNCHANGED <<now, redisUrl, client, qcache, analyzeVars, jobVars, engineVars, uiVars>>

\* await redis.set(key, JSON.stringify(value), 'EX', ttlSec); return value
redis_set(c) ==
  /\ qcall[c].pc = "set"
  /\ qcache' = [qcache EXCEPT ![qcall[c].symbol] =
                  [present |-> TRUE, str |-> JsonStringify(qcall[c].value), setAt |-> now]]
  /\ qcall' = [qcall EXCEPT ![c].pc = "done", ![c].ret = qcall[c].value]
  /\ UNCHANGED <<now, redisUrl, client, analyzeVars, jobVars, engineVars, uiVars>>

QuoteTick ==
  /\ now < MaxQuoteTicks * QuoteTickSeconds
  /\ now' = now + QuoteTickSeconds
  /\ UNCHANGED <<analyzeVars, quoteVars, jobVars, engineVars, uiVars>>

\* ---------------------------------------------------- Celery job and polling
\* One record per call of the phase 6 endpoint: the position of the endpoint
\* and of the worker (pc), what the endpoint answered, and what the result
\* backend holds for the task (state, result).
NoJob == [pc |-> "none", state |-> "NONE", symbol |-> "", force |-> FALSE,
          answer |-> "none", served |-> NoResult, fetched |-> NoFetched,
          company |-> "", result |-> ""]
NoPoll == [pc |-> "idle", seen |-> "NONE", status |-> "", result |-> ""]

\* AsyncResult(job_id).state: an id the backend has nothing for reads PENDING
AsyncResult(job) == IF job.state = "NONE" THEN "PENDING" ELSE job.state

\* task.ready(): the task has run, whether it returned or raised
Ready(state) == state \in {"SUCCESS", "FAILURE"}

\* analyze_company.delay(symbol) and the answer { job_id, status: "pending" }
Enqueued(job) == [job EXCEPT !.pc = "queued", !.state = "PENDING", !.answer = "job"]

\* the stored analysis is the answer; no task is made
Answered(job, from, data) ==
  [job EXCEPT !.pc = "served", !.answer = from, !.served = data]

\* GET /analyze/{symbol} of phase 6 arrives: the Redis lookup is issued, or
\* with force the task is enqueued at once
analyze_enqueue(j, s, force) ==
  /\ jobs[j].pc = "none"
  /\ j > 1 => jobs[j - 1].pc # "none"
  /\ LET base == [jobs[j] EXCEPT !.symbol = s, !.force = force]
     IN jobs' = [jobs EXCEPT ![j] =
          IF BypassFreshness(force) THEN Enqueued(base)
          ELSE [base EXCEPT !.pc = "cache_check"]]
  /\ UNCHANGED <<now, polls, analyzeVars, quoteVars, engineVars, uiVars>>

\* 1. Check cache: cache.get returns; on a miss the table lookup is issued
enqueue_cache_get(j) ==
  /\ jobs[j].pc = "cache_check"
  /\ LET hit == CacheGet(jobs[j].symbol)
     IN jobs' = [jobs EXCEPT ![j] =
          IF hit.present THEN Answered(jobs[j], "cache", hit.data)
          ELSE [jobs[j] EXCEPT !.pc = "db_check"]]
  /\ UNCHANGED <<now, polls, analyzeVars, quoteVars, engineVars, uiVars>>

\* 1. Check DB: repo.get_latest returns; 2. if miss, enqueue Celery task
enqueue_get_latest(j) ==
  /\ jobs[j].pc = "db_check"
  /\ LET sn == repo_get_latest(jobs[j].symbol, MaxAgeHours)
     IN jobs' = [jobs EXCEPT ![j] =
          IF sn.present THEN Answered(jobs[j], "db", sn.data)
          ELSE Enqueued(jobs[j])]
  /\ UNCHANGED <<now, polls, analyzeVars, quoteVars, engineVars, uiVars>>

\* a worker takes the task from the queue and enters
\* asyncio.run(engine.analyze(symbol)); the backend keeps saying PENDING
\* (task_track_started is not set)
task_started(j) ==
  /\ jobs[j].pc = "queued"
  /\ jobs' = [jobs EXCEPT ![j].pc = "gather"]
  /\ UNCHANGED <<now, polls, analyzeVars, quoteVars, engineVars, uiVars>>

\* engine.analyze in the worker, step 1: the gather returns
task_gather(j, fetched) ==
  /\ jobs[j].pc = "gather"
  /\ jobs' = [jobs EXCEPT ![j].pc = "get_company", ![j].fetched = fetched]
  /\ UNCHANGED <<now, polls, analyzeVars, quoteVars, engineVars, uiVars>>

\* analyze_company_task from the company lookup on: engine.analyze raises in
\* its engines (EnginesRaise), on every input, so the task never returns
\* result.dict(): Celery stores the state FAILURE with the exception as the
\* result of the task.  "Save to DB" and "Cache in Redis" are comments,
\* nothing is written
analyze_company_task(j, company) ==
  /\ jobs[j].pc = "get_company"
  /\ jobs' = [jobs EXCEPT ![j] =
       [@ EXCEPT !.pc = "done", !.state = "FAILURE", !.company = company,
                 !.result = EnginesRaise(jobs[j].fetched, company)]]
  /\ UNCHANGED <<now, polls, analyzeVars, quoteVars, engineVars, uiVars>>

\* GET /jobs/{job_id}, for any id: task.ready() reads the result backend; a
\* ready task is answered "complete" with task.result, for any other the
\* handler goes on to task.info
get_job_status(j) ==
  /\ polls[j].pc # "info"
  /\ polls' = [polls EXCEPT ![j] =
       IF Ready(AsyncResult(jobs[j]))
         THEN [pc |-> "done", seen |-> AsyncResult(jobs[j]), status |-> "complete",
               result |-> jobs[j].result]
         ELSE [pc |-> "info", seen |-> AsyncResult(jobs[j]), status |-> "",
               result |-> ""]]
  /\ UNCHANGED <<now, jobs, analyzeVars, quoteVars, engineVars, uiVars>>

\* task.info.get("progress", 0): a second read of the backend.  The info of
\* a task that has no result yet is None, that of a task that raised in the
\* meantime is the exception, and neither has .get: AttributeError.  (The
\* info of a task that returned would be its result dict; no task returns.)
task_info(j) ==
  /\ polls[j].pc = "info"
  /\ polls' = [polls EXCEPT ![j] =
       [pc |-> "done", seen |-> AsyncResult(jobs[j]),
        status |-> IF AsyncResult(jobs[j]) = "SUCCESS" THEN "pending"
                   ELSE "AttributeError",
        result |-> ""]]
  /\ UNCHANGED <<now, jobs, analyzeVars, quoteVars, engineVars, uiVars>>

\* ------------------------------------------- NSEService.get_shareholding
\* (docs/tech-plan-brief.md)  One action is one network request of the call.
MaxCalls == 2
CallIds == 1..MaxCalls

StatusCodes == {200, 401, 503}
\* session.get raised (connection error, timeout)
Raised == [status |-> 0, json |-> FALSE]
NoResp == [status |-> -1, json |-> FALSE]
\* json: response.json() can decode the body
Responses == [status : StatusCodes, json : BOOLEAN] \cup {Raised}

NoCall == [pc |-> "idle", homeVisits |-> 0, attempts |-> 0,
           first |-> NoResp, last |-> NoResp, result |-> "pending"]

\* `if response.status_code == 401:`
CookieExpired(resp) == resp.status = 401

\* `data = response.json()` ... `return {...}`, or the except branch
Returned_value(resp) == IF resp.json THEN "dict" ELSE "None"

\* try: self._init_session()
get_shareholding(c, homeOk) ==
  /\ nse[c].pc = "idle"
  /\ nse' = [nse EXCEPT ![c].homeVisits = 1,
                        ![c].pc = IF homeOk THEN "get" ELSE "done",
                        ![c].result = IF homeOk THEN "pending" ELSE "None"]
  /\ UNCHANGED <<now, analyzeVars, quoteVars, jobVars, calc, uiVars>>

\* response = self.session.get(url), up to the next request or the return
session_get(c, resp) ==
  /\ nse[c].pc = "get"
  /\ nse' = [nse EXCEPT
       ![c].attempts = 1,
       ![c].first = resp,
       ![c].last = resp,
       ![c].pc = IF resp = Raised THEN "done"
                 ELSE IF CookieExpired(resp) THEN "reinit" ELSE "done",
       ![c].result = IF resp = Raised THEN "None"
                     ELSE IF CookieExpired(resp) THEN "pending"
                     ELSE Returned_value(resp)]
  /\ UNCHANGED <<now, analyzeVars, quoteVars, jobVars, calc, uiVars>>

\* Cookie expired, retry once: self._init_session()
retry_init_session(c, homeOk) ==
  /\ nse[c].pc = "reinit"
  /\ nse' = [nse EXCEPT ![c].homeVisits = 2,
                        ![c].pc = IF homeOk THEN "retry" ELSE "done",
                        ![c].result = IF homeOk THEN "pending" ELSE "None"]
  /\ UNCHANGED <<now, analyzeVars, quoteVars, jobVars, calc, uiVars>>

\* response = self.session.get(url), the second request; its status is not
\* looked at
retry_session_get(c, resp) ==
  /\ nse[c].pc = "retry"
  /\ nse' = [nse EXCEPT
       ![c].attempts = 2,
       ![c].last = resp,
       ![c].pc = "done",
       ![c].result = IF resp = Raised THEN "None" ELSE Returned_value(resp)]
  /\ UNCHANGED <<now, analyzeVars, quoteVars, jobVars, calc, uiVars>>

\* --------------------------------------------------------- generate_verdict
\* (docs/plan-final.md, Module D)  The analysis hands over the three scores;
\* the composite score of the same analysis is kept beside them.
MaxScore == 100
QualityScores == {"High", "Medium", "Low"}
ValuationScores == {"Undervalued", "Fair", "Overvalued"}
RiskScores == {"Low", "High"}
CompositeScores == 0..MaxScore

VerdictInputs == [quality_score : QualityScores, valuation_score : ValuationScores,
                  risk_score : RiskScores, score : CompositeScores]


\* a Python function that reaches its end returns None
PyNone == "None"

generate_verdict_value(quality_score, valuation_score, risk_score) ==
  IF quality_score = "High" /\ risk_score = "Low"
  THEN IF valuation_score = "Undervalued" THEN "STRONG BUY (Deep Value)"
       ELSE IF valuation_score = "Fair" THEN "ACCUMULATE (Quality at Fair Price)"
       ELSE "WAIT (Quality but Expensive)"
  ELSE IF risk_score = "High" THEN "AVOID (Structural Risk)"
  ELSE PyNone

generate_verdict ==
  /\ calc.fn = "generate_verdict" /\ calc.pc = "input"
  /\ calc' = [calc EXCEPT
       !.pc = "done",
       !.out = generate_verdict_value(calc.in.quality_score,
                                      calc.in.valuation_score,
                                      calc.in.risk_score)]
  /\ UNCHANGED <<now, analyzeVars, quoteVars, jobVars, nse, uiVars>>

\* ------------------------------------------- ScoringEngine.calculate_hqsf
\* (docs/implementation-plan.md 3.6)  The source gives the signature, a
\* docstring with the five weights and three comments; there is no
\* statement after them, so a call returns None whatever it is given.  The
\* five arguments are the metrics objects of the five engines, reduced to
\* the fields the composite is said to be made of.
MaxOwnershipFlags == 6
Flags == {"GREEN", "YELLOW", "RED"}

\* the docstring, in percent
Weights ==
  [Quality |-> 30, Risk |-> 25, Valuation |-> 25, Growth |-> 15, Ownership |-> 5]

HqsfInputs == [growth : [flag : Flags],
               quality : [flag : Flags, aggressive : BOOLEAN],
               risk : [flag : Flags],
               valuation : [flag : Flags],
               ownership : [flags : 0..MaxOwnershipFlags]]

calculate_hqsf ==
  /\ calc.fn = "calculate_hqsf" /\ calc.pc = "input"
  /\ calc' = [calc EXCEPT !.pc = "done", !.out = PyNone]
  /\ UNCHANGED <<now, analyzeVars, quoteVars, jobVars, nse, uiVars>>

\* ---------------------------------------------------- QualityEngine.analyze
\* (docs/implementation-plan.md 3.2)  ROCE and ROE are yearly percentages,
\* oldest first, MaxYears records at most.
MaxYears == 4
Percents == {14, 15, 16}

\* the lists of at most n values of S
SeqsUpTo(S, n) == UNION {[1..k -> S] : k \in 0..n}

RoceSeries == SeqsUpTo(Percents, MaxYears) \cup {<<10, 11, 12>>}
RoeSeries == SeqsUpTo(Percents, MaxYears) \cup {<<18, 19, 20>>}

\* values[-3:]
Last3(values) ==
  IF Len(values) <= 3 THEN values ELSE SubSeq(values, Len(values) - 2, Len(values))

RECURSIVE SumSeq(_)
SumSeq(values) == IF values = <<>> THEN 0 ELSE Head(values) + SumSeq(Tail(values))

\* mean(values) as the exact fraction sum / n; mean([]) raises
mean(values) == [sum |-> SumSeq(values), n |-> Len(values)]
Above(avg, k) == avg.sum > k * avg.n
Below(avg, k) == avg.sum < k * avg.n

QualityFlag(roce_3yr_avg, roe_3yr_avg) ==
  IF Above(roce_3yr_avg, 15) /\ Above(roe_3yr_avg, 15) THEN "GREEN"
  ELSE IF Below(roce_3yr_avg, 15) /\ Above(roe_3yr_avg, 15) THEN "RED"
  ELSE "YELLOW"

QualityEngine_analyze ==
  /\ calc.fn = "QualityEngine.analyze" /\ calc.pc = "input"
  /\ LET roce == Last3(calc.in.ROCE)
         roe == Last3(calc.in.ROE)
     IN calc' = [calc EXCEPT
          !.pc = "done",
          !.out = IF roce = <<>> \/ roe = <<>>
                  THEN [raised |-> "StatisticsError", flag |-> "none",
                        roce_3yr_avg |-> mean(roce), roe_3yr_avg |-> mean(roe)]
                  ELSE [raised |-> "no", flag |-> QualityFlag(mean(roce), mean(roe)),
                        roce_3yr_avg |-> mean(roce), roe_3yr_avg |-> mean(roe)]]
  /\ UNCHANGED <<now, analyzeVars, quoteVars, jobVars, nse, uiVars>>

\* np.mean(values): the exact fraction sum / n; np.mean of no values is nan,
\* which no comparison holds of
np_mean(values) == [sum |-> SumSeq(values), n |-> Len(values)]

\* StockAnalyzer.analyze_quality (docs/tech-plan-brief.md): status starts as
\* "NEUTRAL" and the two tests overwrite it
analyze_quality_status(roce_avg, roe_avg) ==
  IF Above(roce_avg, 15) /\ Above(roe_avg, 15) THEN "GREEN"
  ELSE IF Below(roce_avg, 15) /\ Above(roe_avg, 15) THEN "RED"
  ELSE "NEUTRAL"

analyze_quality ==
  /\ calc.fn = "analyze_quality" /\ calc.pc = "input"
  /\ LET roce_avg == np_mean(Last3(calc.in.ROCE))
         roe_avg == np_mean(Last3(calc.in.ROE))
     IN calc' = [calc EXCEPT
          !.pc = "done",
          !.out = [raised |-> "no", flag |-> analyze_quality_status(roce_avg, roe_avg),
                   roce_3yr_avg |-> roce_avg, roe_3yr_avg |-> roe_avg]]
  /\ UNCHANGED <<now, analyzeVars, quoteVars, jobVars, nse, uiVars>>

\* ------------------------------------------------------------ GrowthEngine
\* (docs/MIGRATION_SUMMARY.md Step 2, docs/implementation-plan.md 3.1)
\* Revenue and Profit are yearly amounts, oldest first, the same years in
\* both.  A rate r = (end/start)^(1/years) - 1 is kept exactly, as the three
\* numbers it is computed from.
Revenues == {0, 1000, 1331, 1400}
Profits == {-10, 0, 12}
CagrValues == {0, 100, 110, 121}
YearsArgs == {1, 2, 3}

\* financials of k yearly records
Financials(k) ==
  {[Revenue |-> rev, Profit |-> prof] :
     rev \in [1..k -> Revenues], prof \in [1..k -> Profits]}

RECURSIVE Pow(_, _)
Pow(b, e) == IF e = 0 THEN 1 ELSE b * Pow(b, e - 1)

\* (values[-1] / values[0]) ** (1/years) - 1
calculate_cagr_value(values, years) ==
  LET end == values[Len(values)]
      start == values[1]
      rate(kind) == [kind |-> kind, end |-> end, start |-> start, years |-> years]
  IN IF values = <<>>
     THEN [kind |-> "IndexError", end |-> 0, start |-> 0, years |-> years]
     ELSE IF start = 0 THEN rate("ZeroDivisionError")
     ELSE IF end * start < 0 /\ years > 1 THEN rate("complex")
     ELSE rate("number")

CagrRaised(r) == r.kind \in {"IndexError", "ZeroDivisionError"}

\* r = num/den
RateIs(r, num, den) ==
  r.kind = "number" /\ r.end * Pow(den, r.years) = r.start * Pow(den + num, r.years)

\* the doubles of a rate that is exactly num/den: 1.331 ** (1/3) - 1 is
\* 0.10000000000000009 and the literal 0.10 is 0.1000000000000000055
RoundsAbove(r, num, den) == r.years = 3 /\ num = 1 /\ den = 10

\* r > num/den as the doubles compare, for a rate r of kind "number"
\* (den > 0, num >= 0): the exact order, and at equality the order of the
\* two roundings
RateAbove(r, num, den) ==
  \/ IF r.start > 0
     THEN r.end * Pow(den, r.years) > r.start * Pow(den + num, r.years)
     ELSE r.end * Pow(den, r.years) < r.start * Pow(den + num, r.years)
  \/ RateIs(r, num, den) /\ RoundsAbove(r, num, den)

calculate_cagr ==
  /\ calc.fn = "calculate_cagr" /\ calc.pc = "input"
  /\ calc' = [calc EXCEPT
       !.pc = "done",
       !.out = calculate_cagr_value(calc.in.values, calc.in.years)]
  /\ UNCHANGED <<now, analyzeVars, quoteVars, jobVars, nse, uiVars>>

\* the window length the caller states for values[-3:]
WindowYears(window) == 3

GrowthEngine_analyze ==
  /\ calc.fn = "GrowthEngine.analyze" /\ calc.pc = "input"
  /\ LET revenue == Last3(calc.in.Revenue)
         profit == Last3(calc.in.Profit)
         revenue_cagr_3y == calculate_cagr_value(revenue, WindowYears(revenue))
         profit_cagr_3y == calculate_cagr_value(profit, WindowYears(profit))
         raised == IF CagrRaised(revenue_cagr_3y) THEN revenue_cagr_3y.kind
                   ELSE IF CagrRaised(profit_cagr_3y) THEN profit_cagr_3y.kind
                   ELSE IF revenue_cagr_3y.kind = "complex" THEN "TypeError"
                   ELSE "no"
     IN calc' = [calc EXCEPT
          !.pc = "done",
          !.out = [raised |-> raised,
                   revenue_cagr_3y |-> revenue_cagr_3y,
                   profit_cagr_3y |-> profit_cagr_3y,
                   flag |-> IF raised # "no" THEN "none"
                            ELSE IF RateAbove(revenue_cagr_3y, 1, 10) THEN "GREEN"
                            ELSE "RED"]]
  /\ UNCHANGED <<now, analyzeVars, quoteVars, jobVars, nse, uiVars>>

\* ------------------------------------------------- RiskEngine, analyze_risk
\* (docs/MIGRATION_SUMMARY.md Step 4, docs/tech-plan-brief.md analyze_risk)
\* A sector is a string, kept as the sequence of its characters so that
\* `in` (substring) and dictionary lookup (equality) are what they are in
\* Python.  Debt-to-equity and thresholds are in tenths.
MaxDebtEquity == 21
Banking == <<"B", "a", "n", "k", "i", "n", "g">>
PrivateBank == <<"P", "r", "i", "v", "a", "t", "e", " ", "B", "a", "n", "k">>
Power == <<"P", "o", "w", "e", "r">>
IT == <<"I", "T">>
Software == <<"S", "o", "f", "t", "w", "a", "r", "e">>
Textiles == <<"T", "e", "x", "t", "i", "l", "e", "s">>
Default == <<"D", "e", "f", "a", "u", "l", "t">>
Bank == <<"B", "a", "n", "k">>
EmptySector == <<>>
Sectors == {Banking, PrivateBank, Power, IT, Software, Textiles, EmptySector}

DebtEquityValues == 0..MaxDebtEquity
DebtEquitySeries == {<<d>> : d \in DebtEquityValues}
                      \cup {<<p, d>> : p \in {0, MaxDebtEquity}, d \in DebtEquityValues}

\* self.strategies: sector name -> D/E threshold of its strategy
strategies ==
  (Banking :> 20) @@ (Power :> 20) @@ (IT :> 3) @@ (Default :> 10)

\* self.strategies.get(company.sector, self.strategies["Default"])
RiskEngine_threshold(sector) ==
  IF sector \in DOMAIN strategies THEN strategies[sector] ELSE strategies[Default]

\* `sub in s` on Python strings
Contains(sub, str) ==
  \E i \in 0..(Len(str) - Len(sub)) : SubSeq(str, i + 1, i + Len(sub)) = sub

\* threshold = 2.0 if 'Bank' in sector or 'Power' in sector else 1.0
analyze_risk_threshold(sector) ==
  IF Contains(Bank, sector) \/ Contains(Power, sector) THEN 20 ELSE 10

\* "is_safe": d_e < threshold
is_safe(d_e, threshold) == d_e < threshold

\* financials['Debt to Equity'][-1]
Latest(values) == values[Len(values)]

\* RiskEngine.analyze: the strategy of the sector is looked up, and the call
\* strategy.calculate_risk(financials) raises: the strategy classes
\* (docs/architecture.md) define calculate_risk_score only.  threshold is the
\* DE_THRESHOLD of the strategy the lookup resolved.
RiskEngine_analyze ==
  /\ calc.fn = "RiskEngine.analyze" /\ calc.pc = "input"
  /\ calc' = [calc EXCEPT
       !.pc = "done",
       !.out = [raised |-> "AttributeError",
                threshold |-> RiskEngine_threshold(calc.in.sector)]]
  /\ UNCHANGED <<now, analyzeVars, quoteVars, jobVars, nse, uiVars>>

\* StockAnalyzer.analyze_risk returns current_de, threshold and is_safe
analyze_risk ==
  /\ calc.fn = "analyze_risk" /\ calc.pc = "input"
  /\ LET d_e == Latest(calc.in.debt_equity)
         threshold == analyze_risk_threshold(calc.in.sector)
     IN calc' = [calc EXCEPT
          !.pc = "done",
          !.out = [raised |-> "no", current_de |-> d_e, threshold |-> threshold,
                   is_safe |-> is_safe(d_e, threshold)]]
  /\ UNCHANGED <<now, analyzeVars, quoteVars, jobVars, nse, uiVars>>

\* --------------------------------------------------------- ValuationEngine
\* (docs/MIGRATION_SUMMARY.md Step 5)  Amounts are whole rupees.  The Graham
\* number (22.5 * eps * bvps) ** 0.5 is kept exactly, as twice its square
\* 45 * eps * bvps; pe_current is kept as the fraction price / eps and
\* pe_historical as the fraction sum / n.
EpsValues == {-50, -1, 0, 1, 50}
BvpsValues == {-500, 0, 500}
Prices == {500, 750, 1000}
PeSeries == {<<>>, <<20>>, <<10, 20, 30, 40, 50, 60>>}
\* financials['FCF']: the key is there or not
FcfSeries == {<<>>, <<1>>}

\* calculate_dcf: the body is `pass`
calculate_dcf(fcf_history) == PyNone

\* (22.5 * eps * bvps) ** 0.5: a negative base gives a complex number
calculate_graham_number_value(eps, bvps) ==
  [kind |-> IF 45 * eps * bvps < 0 THEN "complex" ELSE "number",
   twice_square |-> 45 * eps * bvps]

calculate_graham_number ==
  /\ calc.fn = "calculate_graham_number" /\ calc.pc = "input"
  /\ calc' = [calc EXCEPT
       !.pc = "done",
       !.out = calculate_graham_number_value(calc.in.eps, calc.in.bvps)]
  /\ UNCHANGED <<now, analyzeVars, quoteVars, jobVars, nse, uiVars>>

\* values[-5:]
Last5(values) ==
  IF Len(values) <= 5 THEN values ELSE SubSeq(values, Len(values) - 4, Len(values))

\* analyze: the statements in order, each of which may raise
ValuationEngine_analyze ==
  /\ calc.fn = "ValuationEngine.analyze" /\ calc.pc = "input"
  /\ LET raised == IF ~calc.in.hasFCF THEN "KeyError"
                   ELSE IF Latest(calc.in.EPS) = 0 THEN "ZeroDivisionError"
                   ELSE IF calc.in.PE = <<>> THEN "StatisticsError"
                   ELSE "no"
     IN calc' = [calc EXCEPT
          !.pc = "done",
          !.out = IF raised # "no" THEN [raised |-> raised]
                  ELSE [raised |-> "no",
                        dcf_value |-> calculate_dcf(calc.in.FCF),
                        graham_number |->
                          calculate_graham_number_value(Latest(calc.in.EPS),
                                                        Latest(calc.in.BookValue)),
                        pe_current |-> [num |-> calc.in.price,
                                        den |-> Latest(calc.in.EPS)],
                        pe_historical |-> mean(Last5(calc.in.PE))]]
  /\ UNCHANGED <<now, analyzeVars, quoteVars, jobVars, nse, uiVars>>

\* ------------------------------------ OwnershipEngine.analyze, analyze_ownership
\* Percentages are whole numbers, oldest quarter first.
MaxQuarters == 5
FiiPercents == {10, 11, 12}
PledgedPercents == {0, 5}
PromoterPercents == {50, 51}
FiiHistories == SeqsUpTo(FiiPercents, MaxQuarters) \ {<<>>}

\* OwnershipEngine.analyze (docs/MIGRATION_SUMMARY.md Step 6) reads
\* shareholding['promoter_pledged_percent'] and then calls
\* self.calculate_trend(shareholding['fii_history']), a method the class does
\* not have: the call raises before the list of flags is made
OwnershipEngine_analyze ==
  /\ calc.fn = "OwnershipEngine.analyze" /\ calc.pc = "input"
  /\ calc' = [calc EXCEPT !.pc = "done", !.out = [raised |-> "AttributeError"]]
  /\ UNCHANGED <<now, analyzeVars, quoteVars, jobVars, nse, uiVars>>

\* is_pledged = float(pledging) > 0
is_pledged(pledging) == pledging > 0

\* StockAnalyzer.analyze_ownership (docs/tech-plan-brief.md Step 6) returns
\* promoter_pledging and red_flag, and reads nothing else of the holdings
analyze_ownership ==
  /\ calc.fn = "analyze_ownership" /\ calc.pc = "input"
  /\ LET pledging == calc.in.promoter_pledged_percent
     IN calc' = [calc EXCEPT
          !.pc = "done",
          !.out = [raised |-> "no", promoter_pledging |-> pledging,
                   red_flag |-> is_pledged(pledging)]]
  /\ UNCHANGED <<now, analyzeVars, quoteVars, jobVars, nse, uiVars>>

\* --------------------------------------------- GET /api/search, searchSymbols
\* (unnamed/part_002, lib/sources/yahoo.ts)  Strings are sequences of
\* characters, as for the sectors.
MaxQuotes == 11
SearchCount == 10

\* String.prototype.toUpperCase: the letters a-z, every other character as it is
LowerCase ==
  <<"a", "b", "c", "d", "e", "f", "g", "h", "i", "j", "k", "l", "m",
    "n", "o", "p", "q", "r", "s", "t", "u", "v", "w", "x", "y", "z">>
UpperCase ==
  <<"A", "B", "C", "D", "E", "F", "G", "H", "I", "J", "K", "L", "M",
    "N", "O", "P", "Q", "R", "S", "T", "U", "V", "W", "X", "Y", "Z">>
UpperChar(ch) ==
  IF \E i \in 1..Len(LowerCase) : LowerCase[i] = ch
  THEN UpperCase[CHOOSE i \in 1..Len(LowerCase) : LowerCase[i] = ch]
  ELSE ch
toUpperCase(str) == [i \in 1..Len(str) |-> UpperChar(str[i])]
endsWith(str, suffix) ==
  /\ Len(str) >= Len(suffix)
  /\ SubSeq(str, Len(str) - Len(suffix) + 1, Len(str)) = suffix
\* String.prototype.trim
RECURSIVE trimStart(_)
trimStart(str) ==
  IF str # <<>> /\ Head(str) = " " THEN trimStart(Tail(str)) ELSE str
RECURSIVE trimEnd(_)
trimEnd(str) ==
  IF str # <<>> /\ str[Len(str)] = " " THEN trimEnd(SubSeq(str, 1, Len(str) - 1))
  ELSE str
trim(str) == trimEnd(trimStart(str))

DotNS == <<".", "N", "S">>
DotBO == <<".", "B", "O">>
NSI == <<"N", "S", "I">>
BSE == <<"B", "S", "E">>
NSE == <<"N", "S", "E">>

\* quotes that yahoo-finance2 search can return
QuoteKinds ==
  {[symbol |-> <<"R", ".", "N", "S">>, exch |-> NSI, exchange |-> <<>>, exchDisp |-> NSE],
   [symbol |-> <<"r", ".", "n", "s">>, exch |-> NSI, exchange |-> <<>>, exchDisp |-> NSE],
   [symbol |-> <<"T", ".", "B", "O">>, exch |-> BSE, exchange |-> <<>>,
    exchDisp |-> <<"B", "o", "m", "b", "a", "y">>],
   [symbol |-> <<"R">>, exch |-> <<>>, exchange |-> <<"N", "s", "i">>,
    exchDisp |-> <<"N", "A", "S", "D", "A", "Q">>],
   [symbol |-> <<"A">>, exch |-> <<"N", "M", "S">>, exchange |-> <<>>,
    exchDisp |-> <<"N", "A", "S", "D", "A", "Q">>]}

\* url.searchParams.get('q'): null when the parameter is absent
NoParam == <<"null">>
Queries == {NoParam, <<>>, <<" ">>, <<"R">>, <<" ", "R", " ">>}

\* res.quotes: up to two quotes of any kind followed by m equal ones
Repeat(quote, m) == [i \in 1..m |-> quote]
QuoteLists ==
  {prefix \o Repeat(k, m) :
     prefix \in SeqsUpTo(QuoteKinds, 2), k \in QuoteKinds, m \in 0..(MaxQuotes - 2)}

\* const isIN = (q) => ...
isIN(q) ==
  LET sym == toUpperCase(q.symbol)
      exch == toUpperCase(IF q.exch # <<>> THEN q.exch ELSE q.exchange)
      exchDisp == toUpperCase(q.exchDisp)
  IN \/ endsWith(sym, DotNS) \/ endsWith(sym, DotBO)
     \/ Contains(NSI, exch) \/ Contains(BSE, exch)
     \/ Contains(NSE, exchDisp) \/ Contains(BSE, exchDisp)

slice(items, count) == SubSeq(items, 1, IF Len(items) < count THEN Len(items) ELSE count)
toItem(q) == [symbol |-> q.symbol, exchange |-> q.exchDisp]

\* quotes.filter(isIN).slice(0, count) ... .map(...)
searchSymbols_result(quotes, count) ==
  LET filtered == slice(SelectSeq(quotes, isIN), count)
  IN [i \in 1..Len(filtered) |-> toItem(filtered[i])]

\* /\.(NS|BO)$/i.test(i.symbol)
NseBseSymbol_any(item) == TRUE

NseBseSymbol(item) ==
  endsWith(toUpperCase(item.symbol), DotNS) \/ endsWith(toUpperCase(item.symbol), DotBO)

\* `if (!query || query.trim().length < 1) return []`
EmptyQuery(query) == query = <<>> \/ Len(trim(query)) < 1

\* GET up to `await (yf as any).search(...)`, or to the response
GET_search(param) ==
  /\ route.pc = "idle"
  /\ LET q == IF param = NoParam \/ param = <<>> THEN <<>> ELSE param
     IN route' = [kind |-> "search", q |-> q, providerCalls |-> IF EmptyQuery(q) THEN 0 ELSE 1,
                  pc |-> IF EmptyQuery(q) THEN "done" ELSE "yf_search",
                  status |-> IF EmptyQuery(q) THEN 200 ELSE 0,
                  quotes |-> <<>>, items |-> <<>>]
  /\ UNCHANGED <<now, analyzeVars, quoteVars, jobVars, engineVars, sb, bm, card>>

\* the provider answers; the rest of searchSymbols and of GET
yf_search(quotes) ==
  /\ route.pc = "yf_search" /\ route.kind = "search"
  /\ route' = [route EXCEPT
       !.pc = "done",
       !.status = 200,
       !.quotes = quotes,
       !.items = SelectSeq(searchSymbols_result(quotes, SearchCount), NseBseSymbol)]
  /\ UNCHANGED <<now, analyzeVars, quoteVars, jobVars, engineVars, sb, bm, card>>

\* the provider call rejects: nothing in GET catches it
yf_search_throws ==
  /\ route.pc = "yf_search" /\ route.kind = "search"
  /\ route' = [route EXCEPT !.pc = "threw", !.status = 500]
  /\ UNCHANGED <<now, analyzeVars, quoteVars, jobVars, engineVars, sb, bm, card>>

\* ------------------------------------------------- SearchBar (component)
\* src/app/components/SearchBar.tsx
MaxInflight == 2                       \* search requests in flight at once
Texts == {"", "r", "re"}               \* contents of the input box

\* the symbols that match a query text
SearchResults(text) ==
  CASE text = "r"  -> <<"RELIANCE.NS", "RVNL.NS">>
    [] text = "re" -> <<"RELIANCE.NS">>
    [] OTHER       -> <<>>

\* data.items || [] of an answer of GET /api/search: the matches, or an empty
\* list (no Indian quote found, or a body without items)
SearchAnswers(text) == {SearchResults(text), <<>>}

\* useState('') , useState([]), useState(false), useState(false), useRef(null)
SearchBar_mounted ==
  [pc |-> "mounted", q |-> "", items |-> <<>>, open |-> FALSE,
   loading |-> FALSE, timer |-> {}, inflight |-> [t \in Texts \ {""} |-> 0]]

Inflight == sb.inflight["r"] + sb.inflight["re"]

\* the effect of lines 16-33 after setQ(text): an empty text returns early,
\* before the timer is touched and without setLoading
SearchBar_effect(text) ==
  IF text = ""
  THEN [sb EXCEPT !.q = text, !.items = <<>>, !.open = FALSE]
  ELSE [sb EXCEPT !.q = text, !.loading = TRUE, !.timer = {text}]

\* onChange={e => setQ(e.target.value)} and the effect on [q]
SearchBar_onChange(text) ==
  /\ sb.pc = "mounted"
  /\ text # sb.q
  /\ sb' = SearchBar_effect(text)
  /\ UNCHANGED <<now, analyzeVars, quoteVars, jobVars, engineVars, route, bm, card>>

\* the setTimeout callback starts fetch(`/api/search?q=...`) with the text
\* the effect captured
SearchBar_timeout ==
  /\ sb.pc = "mounted"
  /\ Inflight < MaxInflight
  /\ \E text \in sb.timer :
       sb' = [sb EXCEPT !.timer = {}, !.inflight[text] = @ + 1]
  /\ UNCHANGED <<now, analyzeVars, quoteVars, jobVars, engineVars, route, bm, card>>

\* await fetch / res.json() resolved: setItems, setOpen(true), setLoading(false)
SearchBar_response(text, items) ==
  /\ sb.pc = "mounted"
  /\ sb.inflight[text] > 0
  /\ items \in SearchAnswers(text)
  /\ sb' = [sb EXCEPT !.inflight[text] = @ - 1,
                      !.items = items,
                      !.open = TRUE, !.loading = FALSE]
  /\ UNCHANGED <<now, analyzeVars, quoteVars, jobVars, engineVars, route, bm, card>>

\* await fetch / res.json() rejected: catch and finally
SearchBar_catch(text) ==
  /\ sb.pc = "mounted"
  /\ sb.inflight[text] > 0
  /\ sb' = [sb EXCEPT !.inflight[text] = @ - 1,
                      !.items = <<>>, !.open = FALSE, !.loading = FALSE]
  /\ UNCHANGED <<now, analyzeVars, quoteVars, jobVars, engineVars, route, bm, card>>

\* a click on a suggestion, rendered when open && items.length > 0
goto ==
  /\ sb.pc = "mounted"
  /\ sb.open /\ Len(sb.items) > 0
  /\ sb' = [sb EXCEPT !.open = FALSE]
  /\ UNCHANGED <<now, analyzeVars, quoteVars, jobVars, engineVars, route, bm, card>>

\* ------------------------------------------- BookmarkButton (component)
\* src/app/components/BookmarksBar.tsx, lines 48-106.  A symbol is modelled by
\* a number; an item {symbol, name} by its symbol.
MaxTabs == 2                           \* documents sharing one localStorage
BookmarkCap == 50                      \* items.slice(0, 50)
Tabs == 1..MaxTabs
ToggledSymbols == {50, 51}          \* symbol props of the buttons
MaxEvents == 2                         \* storage events queued for one document

\* the list after n distinct symbols 1..n were bookmarked in that order
Bookmarked(n) == [i \in 1..n |-> n + 1 - i]
StoredLists == {Bookmarked(0), Bookmarked(BookmarkCap)}

\* localStorage.getItem(KEY): {} is null, {list} the JSON text of the list
parse(raw) == CHOOSE list \in raw : TRUE
readBookmarks(raw) == IF raw = {} THEN <<>> ELSE parse(raw)

\* items.findIndex(i => i.symbol === symbol), 0 for "not found"
findIndex(items, symbol) ==
  IF \E i \in 1..Len(items) : items[i] = symbol
  THEN CHOOSE i \in 1..Len(items) :
         /\ items[i] = symbol
         /\ \A j \in 1..(i - 1) : items[j] # symbol
  ELSE 0

\* items.some(i => i.symbol === symbol)
some(items, symbol) == \E i \in 1..Len(items) : items[i] = symbol

\* items.splice(exists, 1)
splice(items, exists) ==
  [i \in 1..(Len(items) - 1) |-> IF i < exists THEN items[i] ELSE items[i + 1]]

\* items.unshift({symbol, name})
unshift(items, symbol) == <<symbol>> \o items

\* the list toggle() hands to writeBookmarks
toggle_items(items, symbol) ==
  IF findIndex(items, symbol) > 0
  THEN splice(items, findIndex(items, symbol))
  ELSE slice(unshift(items, symbol), BookmarkCap)

\* event: the storage events queued for the document of the tab
NoButton == [mounted |-> FALSE, symbol |-> 0, saved |-> FALSE, event |-> 0]

\* BookmarkButton mounts (or its symbol prop changes): the effect reads the
\* list and registers the storage listener; the events queued for the
\* document stay queued and go to the new listener
BookmarkButton_effect(tab, symbol) ==
  /\ bm.pc # "idle"
  /\ bm' = [bm EXCEPT !.pc = "mounted",
                      !.button[tab] = [mounted |-> TRUE, symbol |-> symbol,
                                       saved |-> some(readBookmarks(bm.raw), symbol),
                                       event |-> @.event]]
  /\ UNCHANGED <<now, analyzeVars, quoteVars, jobVars, engineVars, route, sb, card>>

\* toggle(): setItem succeeds (written = TRUE) or throws into the empty catch
\* of writeBookmarks; a successful write queues one storage event for every
\* other document
toggle(tab, written) ==
  /\ bm.pc # "idle"
  /\ bm.button[tab].mounted
  /\ written => \A t \in Tabs \ {tab} : bm.button[t].event < MaxEvents
  /\ LET symbol == bm.button[tab].symbol
         items == readBookmarks(bm.raw)
     IN bm' = [bm EXCEPT
          !.pc = "toggled",
          !.last = [tab |-> tab, symbol |-> symbol, items |-> items],
          !.raw = IF written THEN {toggle_items(items, symbol)} ELSE @,
          !.button = [t \in Tabs |->
             IF t = tab
             THEN [@[t] EXCEPT !.saved = ~(findIndex(items, symbol) > 0)]
             ELSE [@[t] EXCEPT !.event = IF written THEN @ + 1 ELSE @]]]
  /\ UNCHANGED <<now, analyzeVars, quoteVars, jobVars, engineVars, route, sb, card>>

\* one queued storage event is dispatched: onStorage with e.key === KEY runs
\* if a button has its listener registered, otherwise nothing listens
onStorage(tab) ==
  /\ bm.pc # "idle"
  /\ bm.button[tab].event > 0
  /\ bm' = [bm EXCEPT !.pc = "storage",
                      !.button[tab].event = @ - 1,
                      !.button[tab].saved =
                         IF bm.button[tab].mounted
                         THEN some(readBookmarks(bm.raw), bm.button[tab].symbol)
                         ELSE @]
  /\ UNCHANGED <<now, analyzeVars, quoteVars, jobVars, engineVars, route, sb, card>>

\* ------------------------------ PriceCard, NewsList, FundamentalsCard
\* src/unnamed/part_005, src/app/components/NewsList.tsx,
\* src/app/components/FundamentalsCard.tsx: one effect per [symbol, period],
\* each run with its own `mounted` flag that its cleanup clears.
CardKinds == {"PriceCard", "NewsList", "FundamentalsCard"}
CardSymbols == {"TCS", "INFY"}
DefaultPeriod == "1y"                  \* useState('1y')
NoPeriod == ""                         \* NewsList, FundamentalsCard
Periods(kind) == IF kind = "PriceCard" THEN {DefaultPeriod, "1mo"} ELSE {NoPeriod}
NoData == [symbol |-> "", period |-> "", count |-> 0]   \* null, or [] in NewsList
NoError == ""                          \* null
Failed == "Failed to load"

\* what getPrices / getNews / getFundamentals resolve to; count is the number
\* of prices or articles in it
Counts(kind) == IF kind = "FundamentalsCard" THEN {1} ELSE {0, 1}
Loaded(symbol, period, count) == [symbol |-> symbol, period |-> period, count |-> count]

\* a request: the promise of one effect run and the `mounted` flag of that run
CardRequests ==
  [symbol : CardSymbols, period : {DefaultPeriod, "1mo", NoPeriod}, mounted : BOOLEAN]

\* the pending promises: how many there are of each request
MaxPending == 4
NoRequests == [r \in CardRequests |-> 0]

RECURSIVE CountAll(_, _)
CountAll(requests, rs) ==
  IF rs = {} THEN 0
  ELSE LET r == CHOOSE x \in rs : TRUE
       IN requests[r] + CountAll(requests, rs \ {r})

Pending(requests) == CountAll(requests, CardRequests)

\* return () => { mounted = false; }
Cleanup(requests) ==
  [r \in CardRequests |->
     IF r.mounted THEN 0 ELSE requests[r] + requests[[r EXCEPT !.mounted = TRUE]]]

\* one more promise, one promise settled
Issue(requests, r) == [requests EXCEPT ![r] = @ + 1]
Settle(requests, r) == [requests EXCEPT ![r] = @ - 1]

\* if (mounted) { ... }
if_mounted_always(r) == TRUE
if_mounted(r) == r.mounted

\* the effect: cleanup of the previous run (mounted = false), then
\* setLoading(true), setError(null) and the new request
Card_effect(symbol, period) ==
  [card EXCEPT
     !.symbol = symbol, !.period = period,
     !.loading = TRUE,
     !.error = NoError,
     !.requests = Issue(Cleanup(@),
                        [symbol |-> symbol, period |-> period, mounted |-> TRUE])]

\* the parent renders the card with another symbol
Card_symbol(symbol) ==
  /\ card.pc = "mounted"
  /\ Pending(card.requests) < MaxPending
  /\ symbol # card.symbol
  /\ card' = Card_effect(symbol, card.period)
  /\ UNCHANGED <<now, analyzeVars, quoteVars, jobVars, engineVars, route, sb, bm>>

\* PriceCard: setPeriod(p), from a period button; the buttons are rendered
\* by the data view only (not loading, no error, data with count > 0)
PriceCard_setPeriod(period) ==
  /\ card.pc = "mounted" /\ card.kind = "PriceCard"
  /\ ~card.loading /\ card.error = NoError
  /\ card.data # NoData /\ card.data.count > 0
  /\ Pending(card.requests) < MaxPending
  /\ period # card.period
  /\ card' = Card_effect(card.symbol, period)
  /\ UNCHANGED <<now, analyzeVars, quoteVars, jobVars, engineVars, route, sb, bm>>

\* the component unmounts: the cleanup of the last effect run
Card_unmount ==
  /\ card.pc = "mounted"
  /\ card' = [card EXCEPT !.pc = "unmounted",
                          !.requests = Cleanup(@)]
  /\ UNCHANGED <<now, analyzeVars, quoteVars, jobVars, engineVars, route, sb, bm>>

\* await getPrices / getNews / getFundamentals resolved; NewsList keeps the
\* articles only, an empty list when there are none
Card_resolved(r, count) ==
  /\ card.pc # "idle"
  /\ card.requests[r] > 0
  /\ count \in Counts(card.kind)
  /\ card' = IF if_mounted(r)
             THEN [card EXCEPT !.requests = Settle(@, r),
                               !.data = IF card.kind = "NewsList" /\ count = 0
                                        THEN NoData
                                        ELSE Loaded(r.symbol, r.period, count),
                               !.loading = FALSE]
             ELSE [card EXCEPT !.requests = Settle(@, r), !.ignored = TRUE]
  /\ UNCHANGED <<now, analyzeVars, quoteVars, jobVars, engineVars, route, sb, bm>>

\* the request rejected: setError(message), in NewsList setItems([])
Card_rejected(r) ==
  /\ card.pc # "idle"
  /\ card.requests[r] > 0
  /\ card' = IF if_mounted(r)
             THEN [card EXCEPT !.requests = Settle(@, r),
                               !.error = IF card.kind = "NewsList" THEN @ ELSE Failed,
                               !.data = IF card.kind = "NewsList" THEN NoData ELSE @,
                               !.loading = FALSE]
             ELSE [card EXCEPT !.requests = Settle(@, r), !.ignored = TRUE]
  /\ UNCHANGED <<now, analyzeVars, quoteVars, jobVars, engineVars, route, sb, bm>>

\* ----------------------------------------- AI, prices and news routes
\* src/unnamed/part_001 (POST: prompt completion), src/app/api/ai/structured/
\* route.ts (POST: structured summary, lines 18-40; POST: agent, 47-55),
\* src/app/api/prices/[symbol]/route.ts, src/app/api/news/[symbol]/route.ts
Absent == ""                           \* field missing, or the empty string
EmptyBody == [prompt |-> Absent, symbol |-> Absent, query |-> Absent]
BodyFields == {Absent, "TCS.NS"}
\* request bodies: JSON text that parses to an object, or text that does not
Bodies ==
  [malformed : BOOLEAN, prompt : BodyFields, symbol : BodyFields, query : BodyFields]

\* await req.json().catch(() => ({}))
req_json(body) ==
  IF body.malformed THEN EmptyBody
  ELSE [prompt |-> body.prompt, symbol |-> body.symbol, query |-> body.query]

\* AnalyzeRequest.safeParse(json).success: z.object({ query: z.string().min(1) })
safeParse_success(json) == json.query # Absent

LLMFailed == "LLM failed"
ErrorMessages == {"", "429 rate limited"}   \* e?.message
\* model outputs, as characters
ModelTexts == {<<>>, <<"o", "k">>, <<"{", "}">>, <<"}", "{">>, <<"x", "{", "}">>}

\* text.indexOf(c) and text.lastIndexOf(c), 0-based, -1 when absent
indexOf(text, c) ==
  IF \E i \in 1..Len(text) : text[i] = c
  THEN (CHOOSE i \in 1..Len(text) :
          text[i] = c /\ \A j \in 1..(i - 1) : text[j] # c) - 1
  ELSE -1
lastIndexOf(text, c) ==
  IF \E i \in 1..Len(text) : text[i] = c
  THEN (CHOOSE i \in 1..Len(text) :
          text[i] = c /\ \A j \in (i + 1)..Len(text) : text[j] # c) - 1
  ELSE -1
\* text.substring(a, b): the arguments are swapped when a > b
substring(text, a, b) ==
  IF a <= b THEN SubSeq(text, a + 1, b) ELSE SubSeq(text, b + 1, a)
\* JSON.parse of the candidate: of these texts only {} is JSON
JSON_parse_ok(text) == text = <<"{", "}">>
\* lines 29-35: the `data` of the structured answer
extract_data(text) ==
  LET jsonStart == indexOf(text, "{")
      jsonEnd == lastIndexOf(text, "}")
  IN IF jsonStart # -1 /\ jsonEnd # -1
        /\ JSON_parse_ok(substring(text, jsonStart, jsonEnd + 1))
     THEN "parsed" ELSE "{}"

RouteAnswer(kind, status, error) ==
  [kind |-> kind, pc |-> "done", status |-> status, error |-> error,
   modelCalls |-> 0, missing |-> FALSE, failed |-> FALSE,
   raw |-> <<>>, data |-> "{}", prices |-> <<>>]

\* POST of part_001 up to `await generateText`, or to the 400
POST_complete(body) ==
  /\ route.pc = "idle"
  /\ LET prompt == req_json(body).prompt
     IN route' = IF prompt = Absent
                 THEN [RouteAnswer("complete", 400, "Missing prompt")
                         EXCEPT !.missing = TRUE]
                 ELSE [RouteAnswer("complete", 0, "")
                         EXCEPT !.pc = "generateText", !.modelCalls = 1]
  /\ UNCHANGED <<now, analyzeVars, quoteVars, jobVars, engineVars, sb, bm, card>>

\* POST of ai/structured/route.ts lines 18-27
POST_structured(body) ==
  /\ route.pc = "idle"
  /\ LET symbol == req_json(body).symbol
     IN route' = IF symbol = Absent
                 THEN [RouteAnswer("structured", 400, "Missing symbol")
                         EXCEPT !.missing = TRUE]
                 ELSE [RouteAnswer("structured", 0, "")
                         EXCEPT !.pc = "generateText", !.modelCalls = 1]
  /\ UNCHANGED <<now, analyzeVars, quoteVars, jobVars, engineVars, sb, bm, card>>

\* generateText resolved: the 200 answer of either route
generateText_resolved(text) ==
  /\ route.pc = "generateText"
  /\ route' = [route EXCEPT
       !.pc = "done", !.status = 200,
       !.raw = text,
       !.data = IF route.kind = "structured" THEN extract_data(text) ELSE @]
  /\ UNCHANGED <<now, analyzeVars, quoteVars, jobVars, engineVars, sb, bm, card>>

\* generateText rejected: catch (e) -> 500 with e?.message || 'LLM failed'
generateText_rejected(message) ==
  /\ route.pc = "generateText"
  /\ route' = [route EXCEPT
       !.pc = "done", !.status = 500, !.failed = TRUE,
       !.error = IF message = "" THEN LLMFailed ELSE message]
  /\ UNCHANGED <<now, analyzeVars, quoteVars, jobVars, engineVars, sb, bm, card>>

\* POST of ai/structured/route.ts lines 47-55; analyzeCompany is the
\* placeholder of lib/agent/graph.ts, which calls no model and cannot reject
POST_agent(body) ==
  /\ route.pc = "idle"
  /\ route' = IF safeParse_success(req_json(body))
              THEN RouteAnswer("agent", 200, "")
              ELSE [RouteAnswer("agent", 400, "Invalid body") EXCEPT !.missing = TRUE]
  /\ UNCHANGED <<now, analyzeVars, quoteVars, jobVars, engineVars, sb, bm, card>>

Candles == {<<>>, <<100>>, <<100, 101>>}

\* GET of prices/[symbol]/route.ts up to `await getDailyOHLC`
GET_prices(symbol) ==
  /\ route.pc = "idle"
  /\ route' = [RouteAnswer("prices", 0, "") EXCEPT !.pc = "getDailyOHLC"]
  /\ UNCHANGED <<now, analyzeVars, quoteVars, jobVars, engineVars, sb, bm, card>>

getDailyOHLC_resolved(candles) ==
  /\ route.pc = "getDailyOHLC"
  /\ route' = [route EXCEPT !.pc = "done", !.status = 200, !.prices = candles]
  /\ UNCHANGED <<now, analyzeVars, quoteVars, jobVars, engineVars, sb, bm, card>>

\* yf.chart rejected inside getDailyOHLC: the catch of GET
getDailyOHLC_rejected ==
  /\ route.pc = "getDailyOHLC"
  /\ route' = [route EXCEPT !.pc = "done", !.status = 500, !.failed = TRUE,
                            !.prices = <<>>, !.error = "fetch_failed"]
  /\ UNCHANGED <<now, analyzeVars, quoteVars, jobVars, engineVars, sb, bm, card>>

\* GET of news/[symbol]/route.ts: getTopNews returns [] for an empty query,
\* otherwise awaits parser.parseURL
GET_news(symbol) ==
  /\ route.pc = "idle"
  /\ route' = IF symbol = Absent
              THEN RouteAnswer("news", 200, "")
              ELSE [RouteAnswer("news", 0, "") EXCEPT !.pc = "parseURL"]
  /\ UNCHANGED <<now, analyzeVars, quoteVars, jobVars, engineVars, sb, bm, card>>

parseURL_resolved ==
  /\ route.pc = "parseURL"
  /\ route' = [route EXCEPT !.pc = "done", !.status = 200]
  /\ UNCHANGED <<now, analyzeVars, quoteVars, jobVars, engineVars, sb, bm, card>>

\* parser.parseURL rejected: neither getTopNews nor GET catches it
parseURL_rejected ==
  /\ route.pc = "parseURL"
  /\ route' = [route EXCEPT !.pc = "threw", !.status = 500, !.failed = TRUE]
  /\ UNCHANGED <<now, analyzeVars, quoteVars, jobVars, engineVars, sb, bm, card>>

\* -------------------------------------------------------------------- Init
NoCalc == [fn |-> "none", pc |-> "idle"]

\* no request, call or job has been made
ServingIdle ==
  /\ now = 0
  /\ cache = [s \in Symbols |-> NoEntry]
  /\ snapshots = [s \in Symbols |-> NoRow]
  /\ req = [r \in Reqs |-> IdleReq]
  /\ redisUrl = TRUE
  /\ client = FALSE
  /\ qcache = [s \in Symbols |-> NoKey]
  /\ qcall = [c \in Callers |-> IdleCall]
  /\ jobs = [j \in JobIds |-> NoJob]
  /\ polls = [j \in JobIds |-> NoPoll]

\* no route was requested and no component is mounted
NoRoute == [pc |-> "idle"]
NoSearchBar == [pc |-> "idle"]
NoBookmarks == [pc |-> "idle"]
NoCard == [pc |-> "idle"]
UiIdle ==
  /\ route = NoRoute
  /\ sb = NoSearchBar
  /\ bm = NoBookmarks
  /\ card = NoCard

EnginesIdle ==
  /\ nse = [c \in CallIds |-> NoCall]
  /\ calc = NoCalc

Init ==
  /\ now = 0
  /\ cache = [s \in Symbols |-> NoEntry]
  /\ snapshots = [s \in Symbols |-> NoRow]
  /\ req = [r \in Reqs |-> IdleReq]
  /\ redisUrl = TRUE
  /\ client = FALSE
  /\ qcache = [s \in Symbols |-> NoKey]
  /\ qcall = [c \in Callers |-> IdleCall]
  /\ jobs = [j \in JobIds |-> NoJob]
  /\ polls = [j \in JobIds |-> NoPoll]
  /\ EnginesIdle
  /\ UiIdle

\* the table and the key are empty: nothing in the repository writes them
InitJobs ==
  /\ ServingIdle
  /\ EnginesIdle
  /\ UiIdle

\* REDIS_URL is a deployment setting: set or not
InitQuote ==
  /\ now = 0
  /\ cache = [s \in Symbols |-> NoEntry]
  /\ snapshots = [s \in Symbols |-> NoRow]
  /\ req = [r \in Reqs |-> IdleReq]
  /\ redisUrl \in BOOLEAN
  /\ client = FALSE
  /\ qcache = [s \in Symbols |-> NoKey]
  /\ qcall = [c \in Callers |-> IdleCall]
  /\ jobs = [j \in JobIds |-> NoJob]
  /\ polls = [j \in JobIds |-> NoPoll]
  /\ EnginesIdle
  /\ UiIdle

InitVerdict ==
  /\ ServingIdle
  /\ nse = [c \in CallIds |-> NoCall]
  /\ UiIdle
  /\ \E i \in VerdictInputs :
       calc = [fn |-> "generate_verdict", pc |-> "input", in |-> i, out |-> PyNone]

InitScoring ==
  /\ ServingIdle
  /\ nse = [c \in CallIds |-> NoCall]
  /\ UiIdle
  /\ \E i \in HqsfInputs :
       calc = [fn |-> "calculate_hqsf", pc |-> "input", in |-> i, out |-> NoCalc]

InitQuality ==
  /\ ServingIdle
  /\ nse = [c \in CallIds |-> NoCall]
  /\ UiIdle
  /\ \E fn \in {"QualityEngine.analyze", "analyze_quality"},
        roce \in RoceSeries, roe \in RoeSeries :
       calc = [fn |-> fn, pc |-> "input",
               in |-> [ROCE |-> roce, ROE |-> roe], out |-> NoCalc]

InitGrowth ==
  /\ ServingIdle
  /\ nse = [c \in CallIds |-> NoCall]
  /\ UiIdle
  /\ \/ \E k \in 0..MaxYears : \E f \in Financials(k) :
          calc = [fn |-> "GrowthEngine.analyze", pc |-> "input", in |-> f,
                  out |-> NoCalc]
     \/ \E values \in SeqsUpTo(CagrValues, MaxYears), years \in YearsArgs :
          calc = [fn |-> "calculate_cagr", pc |-> "input",
                  in |-> [values |-> values, years |-> years], out |-> NoCalc]

InitRisk ==
  /\ ServingIdle
  /\ nse = [c \in CallIds |-> NoCall]
  /\ UiIdle
  /\ \E fn \in {"RiskEngine.analyze", "analyze_risk"},
        sector \in Sectors, de \in DebtEquitySeries :
       calc = [fn |-> fn, pc |-> "input",
               in |-> [sector |-> sector, debt_equity |-> de], out |-> NoCalc]

InitValuation ==
  /\ ServingIdle
  /\ nse = [c \in CallIds |-> NoCall]
  /\ UiIdle
  /\ \/ \E eps \in EpsValues, bvps \in BvpsValues :
          calc = [fn |-> "calculate_graham_number", pc |-> "input",
                  in |-> [eps |-> eps, bvps |-> bvps], out |-> NoCalc]
     \/ \E eps \in EpsValues, bvps \in BvpsValues, price \in Prices,
           hasFCF \in BOOLEAN, fcf \in FcfSeries, pe \in PeSeries :
          calc = [fn |-> "ValuationEngine.analyze", pc |-> "input",
                  in |-> [EPS |-> <<eps>>, BookValue |-> <<bvps>>, price |-> price,
                          hasFCF |-> hasFCF, FCF |-> IF hasFCF THEN fcf ELSE <<>>,
                          PE |-> pe],
                  out |-> NoCalc]

InitOwnership ==
  /\ ServingIdle
  /\ nse = [c \in CallIds |-> NoCall]
  /\ UiIdle
  /\ \E fn \in {"OwnershipEngine.analyze", "analyze_ownership"},
        pledging \in PledgedPercents, fii \in FiiHistories,
        previous \in PromoterPercents, latest \in PromoterPercents :
       calc = [fn |-> fn, pc |-> "input",
               in |-> [promoter_pledged_percent |-> pledging, fii_history |-> fii,
                       promoter_history |-> <<previous, latest>>],
               out |-> NoCalc]

InitSearch ==
  /\ ServingIdle
  /\ EnginesIdle
  /\ route = NoRoute
  /\ sb = NoSearchBar
  /\ bm = NoBookmarks
  /\ card = NoCard

InitSearchBar ==
  /\ ServingIdle
  /\ EnginesIdle
  /\ route = NoRoute
  /\ sb = SearchBar_mounted
  /\ bm = NoBookmarks
  /\ card = NoCard

InitBookmarks ==
  /\ ServingIdle
  /\ EnginesIdle
  /\ route = NoRoute
  /\ sb = NoSearchBar
  /\ card = NoCard
  /\ \E list \in StoredLists, stored \in BOOLEAN :
       bm = [pc |-> "loaded",
             raw |-> IF stored THEN {list} ELSE {},
             button |-> [t \in Tabs |-> NoButton],
             last |-> [tab |-> 0, symbol |-> 0, items |-> <<>>]]

\* after the first render and its effect: the first request is in flight
InitCard ==
  /\ ServingIdle
  /\ EnginesIdle
  /\ route = NoRoute
  /\ sb = NoSearchBar
  /\ bm = NoBookmarks
  /\ \E kind \in CardKinds, symbol \in CardSymbols :
       LET period == IF kind = "PriceCard" THEN DefaultPeriod ELSE NoPeriod
       IN card = [pc |-> "mounted", kind |-> kind,
                  symbol |-> symbol, period |-> period,
                  data |-> NoData, error |-> NoError, loading |-> TRUE,
                  requests |-> Issue(NoRequests,
                                     [symbol |-> symbol, period |-> period,
                                      mounted |-> TRUE]),
                  ignored |-> FALSE]

NextAnalyze ==
  \/ \E r \in Reqs, s \in Symbols, force \in BOOLEAN : analyze_stock(r, s, force)
  \/ \E r \in Reqs : cache_get(r)
  \/ \E r \in Reqs : check_database(r)
  \/ \E r \in Reqs, fetched \in Gathered : asyncio_gather(r, fetched)
  \/ \E r \in Reqs, company \in Companies : engine_analyze(r, company)
  \/ Tick

NextQuote ==
  \/ \E c \in Callers, s \in Symbols : getQuote(c, s)
  \/ \E c \in Callers : redis_get(c)
  \/ \E c \in Callers, ok \in BOOLEAN : fetchJson(c, ok)
  \/ \E c \in Callers : redis_set(c)
  \/ QuoteTick

NextJobs ==
  \/ \E j \in JobIds, s \in Symbols, force \in BOOLEAN : analyze_enqueue(j, s, force)
  \/ \E j \in JobIds : enqueue_cache_get(j)
  \/ \E j \in JobIds : enqueue_get_latest(j)
  \/ \E j \in JobIds : task_started(j)
  \/ \E j \in JobIds, fetched \in Gathered : task_gather(j, fetched)
  \/ \E j \in JobIds, company \in Companies : analyze_company_task(j, company)
  \/ \E j \in JobIds : get_job_status(j)
  \/ \E j \in JobIds : task_info(j)
  \/ Tick

SpecAnalyze == Init /\ [][NextAnalyze]_vars
SpecQuote == InitQuote /\ [][NextQuote]_vars
SpecJobs == InitJobs /\ [][NextJobs]_vars

NextFetch ==
  \/ \E c \in CallIds, homeOk \in BOOLEAN : get_shareholding(c, homeOk)
  \/ \E c \in CallIds, resp \in Responses : session_get(c, resp)
  \/ \E c \in CallIds, homeOk \in BOOLEAN : retry_init_session(c, homeOk)
  \/ \E c \in CallIds, resp \in Responses : retry_session_get(c, resp)

SpecFetch == Init /\ [][NextFetch]_vars

NextVerdict == generate_verdict

SpecVerdict == InitVerdict /\ [][NextVerdict]_vars

NextScoring == calculate_hqsf

SpecScoring == InitScoring /\ [][NextScoring]_vars

NextQuality == QualityEngine_analyze \/ analyze_quality

SpecQuality == InitQuality /\ [][NextQuality]_vars

NextGrowth == calculate_cagr \/ GrowthEngine_analyze

SpecGrowth == InitGrowth /\ [][NextGrowth]_vars

NextRisk == RiskEngine_analyze \/ analyze_risk

SpecRisk == InitRisk /\ [][NextRisk]_vars

NextValuation == calculate_graham_number \/ ValuationEngine_analyze

SpecValuation == InitValuation /\ [][NextValuation]_vars

NextOwnership == OwnershipEngine_analyze \/ analyze_ownership

SpecOwnership == InitOwnership /\ [][NextOwnership]_vars

NextSearch ==
  \/ \E param \in Queries : GET_search(param)
  \/ \E quotes \in QuoteLists : yf_search(quotes)
  \/ yf_search_throws

SpecSearch == InitSearch /\ [][NextSearch]_vars

NextSearchBar ==
  \/ \E text \in Texts : SearchBar_onChange(text)
  \/ SearchBar_timeout
  \/ \E text \in Texts \ {""} : \E items \in SearchAnswers(text) :
        SearchBar_response(text, items)
  \/ \E text \in Texts \ {""} : SearchBar_catch(text)
  \/ goto

SpecSearchBar == InitSearchBar /\ [][NextSearchBar]_vars

NextBookmarks ==
  \/ \E tab \in Tabs, symbol \in ToggledSymbols : BookmarkButton_effect(tab, symbol)
  \/ \E tab \in Tabs, written \in BOOLEAN : toggle(tab, written)
  \/ \E tab \in Tabs : onStorage(tab)

SpecBookmarks == InitBookmarks /\ [][NextBookmarks]_vars

NextCard ==
  \/ \E symbol \in CardSymbols : Card_symbol(symbol)
  \/ \E period \in Periods("PriceCard") : PriceCard_setPeriod(period)
  \/ Card_unmount
  \/ \E r \in CardRequests, count \in {0, 1} : Card_resolved(r, count)
  \/ \E r \in CardRequests : Card_rejected(r)

SpecCard == InitCard /\ [][NextCard]_vars

NextRoutes ==
  \/ NextSearch
  \/ \E body \in Bodies : POST_complete(body)
  \/ \E body \in Bodies : POST_structured(body)
  \/ \E text \in ModelTexts : generateText_resolved(text)
  \/ \E message \in ErrorMessages : generateText_rejected(message)
  \/ \E body \in Bodies : POST_agent(body)
  \/ \E symbol \in BodyFields : GET_prices(symbol)
  \/ \E candles \in Candles : getDailyOHLC_resolved(candles)
  \/ getDailyOHLC_rejected
  \/ \E symbol \in BodyFields : GET_news(symbol)
  \/ parseURL_resolved
  \/ parseURL_rejected

SpecRoutes == InitSearch /\ [][NextRoutes]_vars

Next == NextAnalyze \/ NextQuote \/ NextJobs \/ NextFetch \/ NextVerdict \/ NextScoring \/ NextQuality \/ NextGrowth \/ NextRisk \/ NextValuation \/ NextOwnership \/ NextSearch \/ NextSearchBar \/ NextBookmarks \/ NextCard \/ NextRoutes
Spec == Init /\ [][Next]_vars

\* ================================================================== claims
Returned(r) == req[r].pc \in {"done", "failed"}

\* C1: for every symbol at most one computation (fetch, compute, save) is in
\* flight at any time, however the analyze requests interleave.
C1_AtMostOneInFlight == \A s \in Symbols : Cardinality(InFlight(s)) <= 1

\* C2: two callers of one symbol whose computations were in flight at the same
\* time get the same outcome: the same result (symbol and timestamp) or the
\* same failure.
C2_SameOutcome ==
  \A r1, r2 \in Reqs :
    (r1 \in req[r2].peers /\ Returned(r1) /\ Returned(r2))
      => /\ req[r1].response.kind = req[r2].response.kind
         /\ req[r1].response.error = req[r2].response.error
         /\ req[r1].response.data.symbol = req[r2].response.data.symbol
         /\ req[r1].response.data.timestamp = req[r2].response.data.timestamp

\* a getQuote call that arrived after a call of its symbol had completed with
\* a quote, and has returned while that quote was inside the window
CalledAgain(c) ==
  /\ qcall[c].pc = "done"
  /\ qcall[c].seen >= 0
  /\ now - qcall[c].seen < QuoteTtlSec

AllGiven(q) ==
  /\ q.fetched.fundamentals = "ok" /\ q.fetched.shareholding = "ok"
  /\ q.fetched.price = "ok" /\ q.company = "row"

C5_FailureNotCached ==
  /\ \A s \in Symbols :
       qcache[s].present => JsonParse(qcache[s].str).status # "unavailable"
  /\ \A c \in Callers :
       (qcall[c].pc = "done" /\ qcall[c].fromCache) => qcall[c].ret.status # "unavailable"

\* C7: the stored result of a symbol, in the cache, in the table or under the
\* key of cacheJson, is only ever replaced by a result that is not older than
\* the one it holds.
C7_NeverOlderOverNewer ==
  [][\A s \in Symbols :
       /\ (cache[s].present /\ cache'[s] # cache[s])
            => /\ cache'[s].present
               /\ cache'[s].data.timestamp >= cache[s].data.timestamp
       /\ (snapshots[s].present /\ snapshots'[s] # snapshots[s])
            => /\ snapshots'[s].present
               /\ snapshots'[s].data.timestamp >= snapshots[s].data.timestamp
       /\ (qcache[s].present /\ qcache'[s] # qcache[s])
            => /\ qcache'[s].present
               /\ JsonParse(qcache'[s].str).asOf >= JsonParse(qcache[s].str).asOf]_vars

\* C8: get_job_status reports the job's actual status: complete with the
\* result for a job that succeeded, failed for a job that failed, pending
\* before that.
C8_StatusReported ==
  \A j \in JobIds :
    polls[j].pc = "done" =>
    /\ polls[j].seen = "SUCCESS"
         => (polls[j].status = "complete" /\ polls[j].result = jobs[j].result)
    /\ polls[j].seen = "FAILURE" => polls[j].status = "failed"
    /\ polls[j].seen = "PENDING" => polls[j].status = "pending"

\* C9: a call that has used more than the wall-clock budget has been failed
\* with a timeout classification.
C9_TimeoutEnforced ==
  \A r \in Reqs :
    req[r].elapsed > JobTimeoutSec
      => (req[r].pc = "failed" /\ req[r].response.error = "TimeoutError")

\* C10: a request that was given the fundamentals, the price and the company
\* row does not fail for the missing shareholding series, the optional one.
C10_OptionalTolerated ==
  \A r \in Reqs :
    ~ /\ req[r].pc = "failed"
      /\ req[r].fetched.fundamentals = "ok" /\ req[r].fetched.price = "ok"
      /\ req[r].fetched.shareholding = "fail"
      /\ req[r].company = "row"

\* ------------------------------------------------------------------ C11
FetchFailed(resp) == resp = Raised \/ resp.status # 200
Finished(c) == nse[c].pc = "done" /\ nse[c].attempts >= 1

\* C11: a request that fails (an exception, or an answer other than 200) is
\* followed by exactly one retry, and no call sends more than two requests.
C11_FailureRetriedOnce ==
  \A c \in CallIds :
    /\ nse[c].attempts <= 2
    /\ Finished(c) /\ FetchFailed(nse[c].first) => nse[c].attempts = 2

\* ------------------------------------------------------------ C12, C13
\* the recommendation label of a returned string
VerdictLabels == {"STRONG_BUY", "ACCUMULATE", "WAIT", "AVOID", "HOLD"}
Label(str) ==
  CASE str = "STRONG BUY (Deep Value)" -> "STRONG_BUY"
    [] str = "ACCUMULATE (Quality at Fair Price)" -> "ACCUMULATE"
    [] str = "WAIT (Quality but Expensive)" -> "WAIT"
    [] str = "AVOID (Structural Risk)" -> "AVOID"
    [] OTHER -> "undefined"

\* C12: for every risk (Low = GREEN, High = RED), valuation and composite
\* score the classifier returns one of the verdict labels, never nothing.
C12_VerdictTotal ==
  calc.fn = "generate_verdict" /\ calc.pc = "done" => Label(calc.out) \in VerdictLabels

\* C13: the verdict follows the decision table: high risk gives AVOID; low
\* risk with Overvalued gives WAIT; STRONG_BUY only for (low risk,
\* Undervalued, composite >= 60); ACCUMULATE only for (low risk, Fair,
\* composite >= 60); low risk with Undervalued or Fair and composite < 60
\* gives HOLD.
C13_DecisionTable ==
  calc.fn = "generate_verdict" /\ calc.pc = "done" =>
    LET i == calc.in
        v == Label(calc.out)
    IN /\ i.risk_score = "High" => v = "AVOID"
       /\ i.risk_score = "Low" /\ i.valuation_score = "Overvalued" => v = "WAIT"
       /\ v = "STRONG_BUY" => /\ i.risk_score = "Low"
                              /\ i.valuation_score = "Undervalued"
                              /\ i.score >= 60
       /\ v = "ACCUMULATE" => /\ i.risk_score = "Low"
                              /\ i.valuation_score = "Fair"
                              /\ i.score >= 60
       /\ i.risk_score = "Low" /\ i.valuation_score \in {"Undervalued", "Fair"}
            /\ i.score < 60 => v = "HOLD"

\* ------------------------------------------------------------ C14, C15
Scored == calc.fn = "calculate_hqsf" /\ calc.pc = "done"

\* C14: the composite score lies in [0, 100] (0..10000 hundredths) for every
\* combination of flags, every ownership flag count, with and without the
\* aggressive-accounting penalty.
C14_CompositeInRange ==
  Scored => /\ calc.out # PyNone
            /\ calc.out >= 0 /\ calc.out <= 100 * 100

\* C15: composite = 0.30*Quality + 0.25*Risk + 0.25*Valuation + 0.15*Growth
\* + 0.05*Ownership with GREEN = 100, YELLOW = 50, RED = 0 and
\* Ownership = max(0, 100 - 20*flags); the weights sum to 1 (100 percent).
Max(a, b) == IF a >= b THEN a ELSE b
PointsOf(flag) == IF flag = "GREEN" THEN 100 ELSE IF flag = "YELLOW" THEN 50 ELSE 0
C15_WeightedSum ==
  /\ Weights.Quality + Weights.Risk + Weights.Valuation
       + Weights.Growth + Weights.Ownership = 100
  /\ Scored /\ ~calc.in.quality.aggressive =>
       LET i == calc.in
       IN /\ calc.out # PyNone
          /\ calc.out = Weights.Quality * PointsOf(i.quality.flag)
                          + Weights.Risk * PointsOf(i.risk.flag)
                          + Weights.Valuation * PointsOf(i.valuation.flag)
                          + Weights.Growth * PointsOf(i.growth.flag)
                          + Weights.Ownership * Max(0, 100 - 20 * i.ownership.flags)

\* ------------------------------------------------------------------ C17
\* the sum of the last three yearly values: the average is above 15 exactly
\* when the sum is above 45
Sum3(values) ==
  values[Len(values)] + values[Len(values) - 1] + values[Len(values) - 2]
QualityDone == calc.fn \in {"QualityEngine.analyze", "analyze_quality"} /\ calc.pc = "done"
ThreeYears == Len(calc.in.ROCE) >= 3 /\ Len(calc.in.ROE) >= 3

\* C17: with three years of data the Quality flag is GREEN iff the 3-year
\* ROCE and ROE averages are both strictly above 15, RED iff the ROCE average
\* is strictly below 15 and the ROE average strictly above 15, and YELLOW
\* otherwise (an average of exactly 15 included); ROCE = [10,11,12] with
\* ROE = [18,19,20] gives RED.
C17_QualityFlag ==
  QualityDone /\ ThreeYears =>
    LET roce == Sum3(calc.in.ROCE)
        roe == Sum3(calc.in.ROE)
        flag == calc.out.flag
    IN /\ calc.out.raised = "no"
       /\ flag = "GREEN" <=> (roce > 45 /\ roe > 45)
       /\ flag = "RED" <=> (roce < 45 /\ roe > 45)
       /\ flag = "YELLOW" <=> ~(roce > 45 /\ roe > 45) /\ ~(roce < 45 /\ roe > 45)
       /\ roce = 45 \/ roe = 45 => flag = "YELLOW"
       /\ calc.in.ROCE = <<10, 11, 12>> /\ calc.in.ROE = <<18, 19, 20>>
            => flag = "RED"

\* ------------------------------------------------------------ C16, C20
GrowthDone == calc.fn = "GrowthEngine.analyze" /\ calc.pc = "done"
CagrDone == calc.fn = "calculate_cagr" /\ calc.pc = "done"

\* C16: an extractor that meets a data gap (fewer than three yearly records)
\* does not fail the analysis: it reports itself unavailable, so that it is
\* left out of the weighted score.
C16_GapReportedUnavailable ==
  GrowthDone /\ Len(calc.in.Revenue) < 3 =>
    calc.out.raised = "no" /\ calc.out.flag = "unavailable"

\* C20: for at least two points and a positive first value CAGR(values,
\* years) is (end/start)^(1/years) - 1, with years the number of yearly
\* periods between the first and the last value: CAGR([100,110,121], 2) is
\* 0.10, and the Growth extractor's 3-year figure uses an exponent that
\* matches the periods of its window.
C20_CagrRelation ==
  /\ CagrDone /\ Len(calc.in.values) >= 2 /\ calc.in.values[1] > 0 =>
       /\ calc.out.kind = "number"
       /\ calc.out.end = calc.in.values[Len(calc.in.values)]
       /\ calc.out.start = calc.in.values[1]
       /\ calc.out.years = calc.in.years
       /\ calc.in.values = <<100, 110, 121>> /\ calc.in.years = 2
            => RateIs(calc.out, 1, 10)
  /\ GrowthDone /\ Len(calc.in.Revenue) >= 2 /\ Last3(calc.in.Revenue)[1] > 0 =>
       LET window == Last3(calc.in.Revenue)
       IN /\ calc.out.revenue_cagr_3y.end = window[Len(window)]
          /\ calc.out.revenue_cagr_3y.start = window[1]
          /\ calc.out.revenue_cagr_3y.years = Len(window) - 1

\* ------------------------------------------------------------ C18, C19
RiskDone == calc.fn \in {"RiskEngine.analyze", "analyze_risk"} /\ calc.pc = "done"

\* C18: every sector string, "Textiles" and the empty string included,
\* resolves to exactly one threshold and nothing is raised: 2.0 for sectors
\* matching Bank or Power, 0.3 for IT or Software, 1.0 otherwise.
C18_ThresholdTotal ==
  RiskDone =>
    LET sector == calc.in.sector
        bankOrPower == Contains(Bank, sector) \/ Contains(Power, sector)
        itOrSoftware == Contains(IT, sector) \/ Contains(Software, sector)
    IN /\ calc.out.threshold \in {20, 3, 10}
       /\ bankOrPower => calc.out.threshold = 20
       /\ itOrSoftware => calc.out.threshold = 3
       /\ ~bankOrPower /\ ~itOrSoftware => calc.out.threshold = 10

\* the flag a risk result stands for: is_safe is GREEN, not is_safe is RED
RiskFlag(out) ==
  IF out.raised # "no" THEN "none" ELSE IF out.is_safe THEN "GREEN" ELSE "RED"

\* C19: the risk extractor raises nothing, and its flag is GREEN exactly when
\* the latest debt-to-equity value is strictly below the threshold resolved
\* for the sector and RED otherwise, equality included; D/E = 1.5 is GREEN
\* for Banking (threshold 2.0) and RED for IT (threshold 0.3).
C19_RiskFlag ==
  RiskDone =>
    LET latest == calc.in.debt_equity[Len(calc.in.debt_equity)]
        flag == RiskFlag(calc.out)
    IN /\ flag \in {"GREEN", "RED"}
       /\ flag = "GREEN" <=> latest < calc.out.threshold
       /\ latest = calc.out.threshold => flag = "RED"
       /\ calc.in.sector = Banking =>
            /\ calc.out.threshold = 20
            /\ latest = 15 => flag = "GREEN"
       /\ calc.in.sector = IT =>
            /\ calc.out.threshold = 3
            /\ latest = 15 => flag = "RED"

\* ------------------------------------------------------------------ C21
\* C21: the Growth extractor never raises on bad data: fewer than three
\* yearly records give insufficient-data, a window whose first value is <= 0
\* gives an unavailable CAGR that stays out of the flag decision, and an
\* available 3-year revenue CAGR gives GREEN above 10% and RED otherwise.
C21_GrowthNeverRaises ==
  GrowthDone =>
    LET revenue == Last3(calc.in.Revenue)
    IN /\ calc.out.raised = "no"
       /\ Len(calc.in.Revenue) < 3 => calc.out.flag = "insufficient-data"
       /\ Len(calc.in.Revenue) >= 3 /\ revenue[1] <= 0
            => calc.out.revenue_cagr_3y.kind = "unavailable"
       /\ Len(calc.in.Revenue) >= 3 /\ revenue[1] > 0
            => calc.out.flag \in {"GREEN", "RED"}

\* ------------------------------------------------------------ C22, C23
ValuationDone == calc.fn = "ValuationEngine.analyze" /\ calc.pc = "done"
GrahamDone == calc.fn = "calculate_graham_number" /\ calc.pc = "done"

\* the figure is a number that can be compared with the price
GrahamDefined == calc.in.EPS[1] > 0 /\ calc.in.BookValue[1] > 0
DcfDefined == calc.out.dcf_value # PyNone

\* C22: the classification is Undervalued exactly when the price is below
\* both the Graham Number and the DCF estimate, Overvalued exactly when it is
\* above both and Fair otherwise; an undefined figure (a Graham Number of
\* non-positive inputs, a DCF estimate that could not be computed) is left
\* out of the comparison and causes no error.
C22_Classification ==
  (ValuationDone /\ calc.in.hasFCF /\ calc.in.PE # <<>>) =>
    LET eps == calc.in.EPS[1]
        bvps == calc.in.BookValue[1]
        price == calc.in.price
        below == /\ GrahamDefined => 2 * price * price < 45 * eps * bvps
                 /\ DcfDefined => price < calc.out.dcf_value
        above == /\ GrahamDefined => 2 * price * price > 45 * eps * bvps
                 /\ DcfDefined => price > calc.out.dcf_value
        anyDefined == GrahamDefined \/ DcfDefined
    IN /\ calc.out.raised = "no"
       /\ "classification" \in DOMAIN calc.out
       /\ calc.out.classification = "Undervalued" <=> (anyDefined /\ below)
       /\ calc.out.classification = "Overvalued" <=> (anyDefined /\ above)
       /\ calc.out.classification \in {"Undervalued", "Fair", "Overvalued"}

\* C23: the Graham Number is sqrt(22.5 * EPS * BookValue) for positive
\* inputs (EPS = 50, BookValue = 500 give 750) and undefined, not a number,
\* when either input is zero or negative, both negative included.
C23_GrahamNumber ==
  GrahamDone =>
    LET eps == calc.in.eps
        bvps == calc.in.bvps
    IN /\ eps > 0 /\ bvps > 0 =>
            /\ calc.out.kind = "number"
            /\ calc.out.twice_square = 45 * eps * bvps
       /\ eps = 50 /\ bvps = 500 => calc.out.twice_square = 2 * 750 * 750
       /\ eps <= 0 \/ bvps <= 0 => calc.out.kind # "number"

\* ------------------------------------------------------------------ C24
OwnershipDone ==
  calc.fn \in {"OwnershipEngine.analyze", "analyze_ownership"} /\ calc.pc = "done"

\* the flags a returned value carries: red_flag is the pledging flag of
\* analyze_ownership
OwnershipFlags(out) == IF out.red_flag THEN {"pledging"} ELSE {}

\* the sign of the least-squares slope through the trailing four quarters
FiiSlope(history) ==
  LET n == IF Len(history) <= 4 THEN Len(history) ELSE 4
      fii == SubSeq(history, Len(history) - n + 1, Len(history))
  IN IF n = 4 THEN 3 * fii[4] + fii[3] - fii[2] - 3 * fii[1]
     ELSE IF n = 3 THEN 2 * fii[3] - 2 * fii[1]
     ELSE IF n = 2 THEN fii[2] - fii[1]
     ELSE 0

\* C24: the Ownership extractor returns a list of flags that holds a pledging
\* flag exactly when the latest pledged percentage is > 0, an FII-reducing
\* flag exactly when the FII slope over the trailing four quarters is
\* negative, and a promoter-decrease flag exactly when the promoter
\* percentage fell against the previous quarter, each decided on its own.
C24_OwnershipFlags ==
  OwnershipDone =>
    /\ calc.out.raised = "no"
    /\ OwnershipFlags(calc.out)
         = (IF calc.in.promoter_pledged_percent > 0 THEN {"pledging"} ELSE {})
             \cup (IF FiiSlope(calc.in.fii_history) < 0 THEN {"fii"} ELSE {})
             \cup (IF calc.in.promoter_history[2] < calc.in.promoter_history[1]
                     THEN {"promoter"} ELSE {})

\* ------------------------------------------------------------------ C25
SearchAnswered == route.kind = "search" /\ route.pc = "done"

\* C25 (as stated): every item answered by GET /api/search has a symbol
\* ending in .NS or .BO, at most 10 items are answered, and an empty query is
\* answered with an empty list without a call to the provider.
C25_OnlyNseBse ==
  route.pc # "idle" /\ SearchAnswered =>
    /\ \A i \in 1..Len(route.items) :
         endsWith(route.items[i].symbol, DotNS) \/ endsWith(route.items[i].symbol, DotBO)
    /\ Len(route.items) <= 10
    /\ Len(trim(route.q)) = 0 => route.items = <<>> /\ route.providerCalls = 0

\* C25 (amended): the suffix is tested without regard to letter case.
C25_OnlyNseBseAnyCase ==
  route.pc # "idle" /\ SearchAnswered =>
    /\ \A i \in 1..Len(route.items) :
         LET sym == toUpperCase(route.items[i].symbol)
         IN endsWith(sym, DotNS) \/ endsWith(sym, DotBO)
    /\ Len(route.items) <= 10
    /\ Len(trim(route.q)) = 0 => route.items = <<>> /\ route.providerCalls = 0
    /\ route.providerCalls <= 1

\* eleven NSE quotes came back and ten are answered
C25_Witness ==
  /\ route.pc # "idle" /\ SearchAnswered
  /\ route.providerCalls = 1 /\ Len(route.quotes) = 11 /\ Len(route.items) = 10
  /\ \A i \in 1..10 : route.items[i].symbol = <<"R", ".", "N", "S">>

\* no debounce timer is pending and no search request is in flight
SearchBarQuiet == sb.timer = {} /\ Inflight = 0

\* C26: once no debounce timer and no request is pending, the suggestions
\* shown are the results of the request made for the current query text; a
\* response to an earlier query is never left displayed for a later one.
C26_ShownForCurrentQuery ==
  (sb.pc = "mounted" /\ SearchBarQuiet /\ sb.q # "" /\ sb.open /\ sb.items # <<>>)
     => sb.items = SearchResults(sb.q)

\* C27: while the query text is empty the suggestion list is empty and
\* closed and the loading indicator is off, whatever timer or request was
\* pending when the text was cleared.
C27_EmptyQueryShowsNothing ==
  (sb.pc = "mounted" /\ sb.q = "")
     => (sb.items = <<>> /\ ~sb.open /\ ~sb.loading)

\* the stored list has at most 50 entries and no symbol twice
StoredListBounded ==
  LET items == readBookmarks(bm.raw)
  IN /\ Len(items) <= BookmarkCap
     /\ \A i, j \in 1..Len(items) : items[i] = items[j] => i = j

\* the list a toggle of symbol leaves, as the claim describes it
Without(items, symbol) == SelectSeq(items, LAMBDA x : x # symbol)
Toggled(items, symbol) ==
  IF some(items, symbol) THEN Without(items, symbol)
  ELSE SubSeq(<<symbol>> \o items, 1, IF Len(items) < BookmarkCap THEN Len(items) + 1 ELSE BookmarkCap)

\* C28: after any toggles from any tab the stored list has at most 50
\* entries and no duplicate symbol; a toggle on X adds X at the front when
\* absent and removes it when present, leaves the other entries and their
\* order alone (dropping entries beyond the 50th), and leaves the button's
\* saved state equal to the membership of X in the stored list.
C28_Toggle ==
  bm.pc # "idle" =>
    /\ StoredListBounded
    /\ bm.pc = "toggled" =>
         /\ readBookmarks(bm.raw) = Toggled(bm.last.items, bm.last.symbol)
         /\ bm.button[bm.last.tab].saved
              = some(readBookmarks(bm.raw), bm.last.symbol)

\* the request of the latest effect run has settled
LatestSettled == \A r \in CardRequests : r.mounted => card.requests[r] = 0

\* a request whose effect run was cleaned up settles in this step
SupersededSettles ==
  \E r \in CardRequests :
    /\ ~r.mounted /\ card.requests[r] > 0
    /\ card'.requests = Settle(card.requests, r)

\* C29: the response or error of a superseded request (symbol or period
\* changed, or component unmounted, while it was in flight) never changes
\* the data, error or loading state; and once the latest request has settled
\* loading is false and the data shown is that of the current symbol and
\* period.
C29_SupersededIgnored ==
  /\ [][card.pc # "idle" /\ SupersededSettles =>
          /\ card'.data = card.data
          /\ card'.error = card.error
          /\ card'.loading = card.loading]_vars
  /\ [](card.pc = "mounted" /\ LatestSettled =>
          /\ ~card.loading
          /\ (card.kind # "NewsList" /\ card.error = NoError) =>
               (card.data.symbol = card.symbol /\ card.data.period = card.period)
          /\ card.kind = "NewsList" =>
               \/ card.data = NoData
               \/ card.data.symbol = card.symbol /\ card.data.period = card.period)

\* after a change of symbol or period a superseded request settled, and the
\* latest request resolved for the current symbol and period
C29_Witness ==
  /\ card.pc = "mounted" /\ card.ignored
  /\ card.requests = NoRequests
  /\ card.data.symbol = card.symbol /\ card.data.period = card.period
  /\ ~card.loading

AiRoutes == {"complete", "structured", "agent"}

\* C30: the API routes answer errors with an HTTP status and never let an
\* exception escape the handler: a missing prompt, symbol or query is
\* answered 400 with no model call, a model failure 500 with an error
\* message, a price fetch failure 500 with an empty prices list and the
\* error 'fetch_failed'.
C30_ErrorsAsStatuses ==
  route.pc # "idle" =>
    /\ route.pc # "threw"
    /\ (route.kind \in AiRoutes /\ route.missing) =>
          route.pc = "done" /\ route.status = 400 /\ route.modelCalls = 0
    /\ (route.kind \in AiRoutes /\ route.failed) =>
          route.pc = "done" /\ route.status = 500 /\ route.error # ""
    /\ (route.kind = "prices" /\ route.failed) =>
          /\ route.pc = "done" /\ route.status = 500
          /\ route.prices = <<>> /\ route.error = "fetch_failed"

====
